---- MODULE Spec2Model ----
(***************************************************************************)
(* State-machine model of the stconstruction web application: the session  *)
(* backed identity resolver, the CSRF middleware, the user service and the *)
(* city / project services, with one action per HTTP handler.              *)
(***************************************************************************)
EXTENDS Integers, Sequences, FiniteSets, TLC

VARIABLES users, next_user_id, session, cities, next_city_id,
          projects, next_project_id, last,
          news, next_news_id, files, next_file_id, settings, pending

vars == <<users, next_user_id, session, cities, next_city_id,
          projects, next_project_id, last,
          news, next_news_id, files, next_file_id, settings, pending>>

userVars == <<users, next_user_id>>
catalogVars == <<cities, next_city_id, projects, next_project_id>>
newsVars == <<news, next_news_id>>
fileVars == <<files, next_file_id>>
settingsVars == <<settings, pending>>
contentVars == <<newsVars, fileVars, settingsVars>>

(***************************************************************************)
(* Bounds of the model.                                                    *)
(***************************************************************************)
MaxUsers == 3
MaxCities == 2
MaxProjects == 2
MaxNews == 2
MaxFiles == 2

(***************************************************************************)
(* Value domains.                                                          *)
(***************************************************************************)
Sessions == {"A", "B"}
Emails == {"admin@x.com", "a@x.com", "b@x.com"}
Usernames == {"admin", "a", "b"}
Passwords == {"pass567", "password1"}
FullNames == {"n1", "n2"}
Tokens == {"t1", "t2"}
NonAsciiToken == "t-non-ascii"
None == "<none>"
Submitted == Tokens \cup {None, "", NonAsciiToken}
ContentTypes == {"application/x-www-form-urlencoded", "multipart/form-data", "text/plain"}

MinPasswordLength == 8

(***************************************************************************)
(* Rows and sessions.                                                      *)
(***************************************************************************)
NoUser == [id |-> 0, email |-> None, username |-> None, hashed_password |-> None,
           full_name |-> None, is_active |-> FALSE, is_superuser |-> FALSE]

EmptySession == [user_id |-> 0, csrf_token |-> None]

\* Python truthiness of an optional string: None and "" are both falsy.
Falsy(x) == x \in {None, ""}

StartsWith(path, prefix) ==
    /\ Len(path) >= Len(prefix)
    /\ SubSeq(path, 1, Len(prefix)) = prefix

\* request.session.clear()
Cleared(s) == [session EXCEPT ![s] = EmptySession]

(***************************************************************************)
(* Password hashing (app.auth.security).                                   *)
(***************************************************************************)
get_password_hash(password) == "hash:" \o password

verify_password(password, hashed) == hashed = get_password_hash(password)

(***************************************************************************)
(* UserRepository.                                                         *)
(***************************************************************************)
get_user_by_id(user_id) ==
    IF \E u \in users : u.id = user_id
    THEN CHOOSE u \in users : u.id = user_id
    ELSE NoUser

get_user_by_email(email) ==
    IF \E u \in users : u.email = email
    THEN CHOOSE u \in users : u.email = email
    ELSE NoUser

get_user_by_username(username) ==
    IF \E u \in users : u.username = username
    THEN CHOOSE u \in users : u.username = username
    ELSE NoUser

\* The unique indexes of the users table: a commit that would leave two rows
\* with one email or one username raises IntegrityError and stores nothing.
UsersUnique(us) ==
    \A u, v \in us : u # v => (u.id # v.id /\ u.email # v.email /\ u.username # v.username)

\* Column defaults of a new User row.
DefaultIsActive == TRUE

DefaultIsSuperuser == FALSE

(***************************************************************************)
(* SimpleCSRFMiddleware.dispatch: 0 lets the request through, otherwise    *)
(* the status of the response the middleware itself produces.             *)
(***************************************************************************)
exempt_methods == {"GET", "HEAD", "OPTIONS", "TRACE"}

exempt_paths == {"/static", "/health"}

\* secrets.compare_digest accepts str arguments only when they are ASCII.
IsAscii(t) == t # NonAsciiToken

\* The token the middleware reads from the request: the header when it is
\* truthy, else the csrf_token field of a urlencoded body (parse_qs drops
\* blank values), else nothing.
submitted_token(tok) ==
    IF ~Falsy(tok.header) THEN tok.header
    ELSE IF tok.ctype = "application/x-www-form-urlencoded" /\ ~Falsy(tok.form)
         THEN tok.form
         ELSE None

csrf_dispatch(s, method, path, tok) ==
    IF method \in exempt_methods THEN 0
    ELSE IF \E p \in exempt_paths : StartsWith(path, p) THEN 0
    ELSE IF Falsy(session[s].csrf_token) THEN 403
    ELSE IF Falsy(submitted_token(tok)) THEN 403
    ELSE IF ~IsAscii(submitted_token(tok)) \/ ~IsAscii(session[s].csrf_token) THEN 500
    ELSE IF session[s].csrf_token # submitted_token(tok) THEN 403
    ELSE 0

\* generate_csrf_token that stores a fresh token at every render.
generate_csrf_token_fresh(sess, s, t) ==
    [sess EXCEPT ![s].csrf_token = t]

\* generate_csrf_token, called by every TemplateResponse of
\* app/core/web/templates.py: keeps the token the session has, stores the
\* fresh token t otherwise.
generate_csrf_token(sess, s, t) ==
    IF sess[s].csrf_token # None THEN sess
    ELSE [sess EXCEPT ![s].csrf_token = t]

(***************************************************************************)
(* Identity resolver (app/auth/dependencies.py).  Each resolver returns    *)
(* the status it raises (200: none), the resolved user id (0: none) and    *)
(* whether it cleared the session.                                         *)
(***************************************************************************)
\* get_current_user with the test for a session without a user id left out.
get_current_user_no_id_check(s) ==
    LET user_id == session[s].user_id
        user == get_user_by_id(user_id)
    IN  IF user = NoUser THEN [status |-> 404, user |-> 0, clear |-> TRUE]
        ELSE IF ~user.is_active THEN [status |-> 403, user |-> 0, clear |-> TRUE]
        ELSE [status |-> 200, user |-> user.id, clear |-> FALSE]

get_current_user(s) ==
    LET user_id == session[s].user_id
        user == get_user_by_id(user_id)
    IN  IF user_id = 0 THEN [status |-> 401, user |-> 0, clear |-> FALSE]
        ELSE IF user = NoUser THEN [status |-> 404, user |-> 0, clear |-> TRUE]
        ELSE IF ~user.is_active THEN [status |-> 403, user |-> 0, clear |-> TRUE]
        ELSE [status |-> 200, user |-> user.id, clear |-> FALSE]

get_current_user_optional(s) ==
    LET user_id == session[s].user_id
        user == get_user_by_id(user_id)
    IN  IF user_id = 0 THEN [status |-> 200, user |-> 0, clear |-> FALSE]
        ELSE IF user = NoUser \/ ~user.is_active
             THEN [status |-> 200, user |-> 0, clear |-> TRUE]
             ELSE [status |-> 200, user |-> user.id, clear |-> FALSE]

\* require_superuser with the is_superuser test left out.
require_superuser_unchecked(s) == get_current_user(s)

require_superuser(s) ==
    LET r == get_current_user(s)
    IN  IF r.status # 200 THEN r
        ELSE IF ~get_user_by_id(r.user).is_superuser
             THEN [status |-> 403, user |-> 0, clear |-> FALSE]
             ELSE r

\* set_current_user_optional without request.session.clear().
set_current_user_optional_keeps_session(s) ==
    LET user_id == session[s].user_id
        user == get_user_by_id(user_id)
    IN  IF user_id = 0 THEN [status |-> 200, user |-> 0, clear |-> FALSE]
        ELSE IF user = NoUser \/ ~user.is_active
             THEN [status |-> 200, user |-> 0, clear |-> FALSE]
             ELSE [status |-> 200, user |-> user.id, clear |-> FALSE]

set_current_user_optional(s) ==
    LET user_id == session[s].user_id
        user == get_user_by_id(user_id)
    IN  IF user_id = 0 THEN [status |-> 200, user |-> 0, clear |-> FALSE]
        ELSE IF user = NoUser \/ ~user.is_active
             THEN [status |-> 200, user |-> 0, clear |-> TRUE]
             ELSE [status |-> 200, user |-> user.id, clear |-> FALSE]

(***************************************************************************)
(* The request pipeline in front of every handler: the CSRF middleware,    *)
(* then the route's identity dependency, then validation of the declared   *)
(* form fields.  stage names the layer that answered, "handler" when the   *)
(* handler body is entered.                                                *)
(***************************************************************************)
FormTypes == {"application/x-www-form-urlencoded", "multipart/form-data"}

Dependency(s, dep) ==
    CASE dep = "superuser" -> require_superuser(s)
      [] dep = "user" -> get_current_user(s)
      [] dep = "optional" -> set_current_user_optional(s)
      [] OTHER -> [status |-> 200, user |-> 0, clear |-> FALSE]

Gate(s, method, path, tok, dep, needs_form) ==
    LET c == csrf_dispatch(s, method, path, tok)
        r == Dependency(s, dep)
    IN  IF c # 0
        THEN [status |-> c, user |-> 0, clear |-> FALSE, stage |-> "csrf"]
        ELSE IF r.status # 200
        THEN [status |-> r.status, user |-> 0, clear |-> r.clear, stage |-> "auth"]
        ELSE IF needs_form /\ tok.ctype \notin FormTypes
        THEN [status |-> 422, user |-> r.user, clear |-> r.clear, stage |-> "validation"]
        ELSE [status |-> 200, user |-> r.user, clear |-> r.clear, stage |-> "handler"]

\* The session store once the dependencies have run.
AfterGate(s, g) == IF g.clear THEN Cleared(s) ELSE session

\* last observes the latest response: the handler that produced it (for a
\* request answered before its handler, only the area of the route), the
\* session of the request, the status, the outcome and the answering layer.
Respond(route, s, status, result, stage) ==
    last' = [route |-> route, sess |-> s, status |-> status,
             result |-> result, stage |-> stage]

\* The routes of the /admin prefix that declare no identity dependency.
AdminOpenRoutes == {"admin_login", "admin_login_page", "admin_logout"}

\* The area of a route, by the identity dependency it declares: "admin" for
\* require_superuser, "user" for get_current_user, "site" for the others.
Area(route) ==
    IF route = "admin" \/ (StartsWith(route, "admin_") /\ route \notin AdminOpenRoutes)
    THEN "admin"
    ELSE IF route \in {"user", "logout", "get_me"} THEN "user"
    ELSE "site"

\* A request answered before its handler body: only the session can change.
Reject(route, s, g) ==
    /\ session' = AfterGate(s, g)
    /\ Respond(Area(route), s, g.status, "rejected", g.stage)
    /\ UNCHANGED <<userVars, catalogVars, contentVars>>

\* @limiter.limit(...): the decorated endpoint answers 429 once over the limit.
Limited(route, s, g) ==
    /\ session' = AfterGate(s, g)
    /\ Respond(Area(route), s, 429, "rate_limited", "limit")
    /\ UNCHANGED <<userVars, catalogVars, contentVars>>

(***************************************************************************)
(* app/users/service.py and repository.py.  Each service returns the       *)
(* status it ends with (200: no exception), the users table it leaves and  *)
(* the id of the row it touched.                                           *)
(***************************************************************************)
\* repo_create_user without the unique indexes.
repo_create_user_no_index(row) ==
    [status |-> 200, users |-> users \cup {row}, id |-> row.id]

repo_create_user(row) ==
    IF UsersUnique(users \cup {row})
    THEN [status |-> 200, users |-> users \cup {row}, id |-> row.id]
    ELSE [status |-> 500, users |-> users, id |-> 0]

repo_update_user(old, new) ==
    IF UsersUnique((users \ {old}) \cup {new})
    THEN [status |-> 200, users |-> (users \ {old}) \cup {new}, id |-> new.id]
    ELSE [status |-> 500, users |-> users, id |-> 0]

\* create_user with the username lookup left out.
create_user_no_username_check(email, username, password, full_name) ==
    IF get_user_by_email(email) # NoUser
    THEN [status |-> 409, users |-> users, id |-> 0]
    ELSE IF Len(password) < MinPasswordLength
    THEN [status |-> 400, users |-> users, id |-> 0]
    ELSE repo_create_user([id |-> next_user_id, email |-> email, username |-> username,
                           hashed_password |-> get_password_hash(password),
                           full_name |-> full_name, is_active |-> DefaultIsActive,
                           is_superuser |-> DefaultIsSuperuser])

\* create_user with the length test off by one.
create_user_short_limit(email, username, password, full_name) ==
    IF get_user_by_email(email) # NoUser
    THEN [status |-> 409, users |-> users, id |-> 0]
    ELSE IF get_user_by_username(username) # NoUser
    THEN [status |-> 409, users |-> users, id |-> 0]
    ELSE IF Len(password) < MinPasswordLength - 1
    THEN [status |-> 400, users |-> users, id |-> 0]
    ELSE repo_create_user([id |-> next_user_id, email |-> email, username |-> username,
                           hashed_password |-> get_password_hash(password),
                           full_name |-> full_name, is_active |-> DefaultIsActive,
                           is_superuser |-> DefaultIsSuperuser])

\* create_user without the lookup of the email.
create_user_no_email_check(email, username, password, full_name) ==
    IF get_user_by_username(username) # NoUser
    THEN [status |-> 409, users |-> users, id |-> 0]
    ELSE IF Len(password) < MinPasswordLength
    THEN [status |-> 400, users |-> users, id |-> 0]
    ELSE repo_create_user([id |-> next_user_id, email |-> email, username |-> username,
                           hashed_password |-> get_password_hash(password),
                           full_name |-> full_name, is_active |-> DefaultIsActive,
                           is_superuser |-> DefaultIsSuperuser])

create_user(email, username, password, full_name) ==
    IF get_user_by_email(email) # NoUser
    THEN [status |-> 409, users |-> users, id |-> 0]
    ELSE IF get_user_by_username(username) # NoUser
    THEN [status |-> 409, users |-> users, id |-> 0]
    ELSE IF Len(password) < MinPasswordLength
    THEN [status |-> 400, users |-> users, id |-> 0]
    ELSE repo_create_user([id |-> next_user_id, email |-> email, username |-> username,
                           hashed_password |-> get_password_hash(password),
                           full_name |-> full_name, is_active |-> DefaultIsActive,
                           is_superuser |-> DefaultIsSuperuser])

\* user_data: the fields set in the UserUpdate object (exclude_unset).
update_user_service(user_id, user_data) ==
    LET user == get_user_by_id(user_id)
        hashed == IF "password" \in DOMAIN user_data
                  THEN [hashed_password |-> get_password_hash(user_data.password)]
                  ELSE <<>>
        data == [f \in (DOMAIN user_data \ {"password"}) \cup DOMAIN hashed |->
                   IF f = "hashed_password" THEN hashed.hashed_password ELSE user_data[f]]
        new == [f \in DOMAIN user |-> IF f \in DOMAIN data THEN data[f] ELSE user[f]]
    IN  IF user = NoUser THEN [status |-> 404, users |-> users, id |-> 0]
        ELSE repo_update_user(user, new)

\* update_user_admin with the test on the caller's own flag left out.
update_user_admin_no_self_check(user_id, email, full_name, is_superuser, current_user_id) ==
    LET user == get_user_by_id(user_id)
    IN  IF user = NoUser THEN [status |-> 404, users |-> users, id |-> 0]
        ELSE IF user.email # email /\ get_user_by_email(email) # NoUser
        THEN [status |-> 409, users |-> users, id |-> 0]
        ELSE repo_update_user(user, [user EXCEPT !.email = email,
                                                 !.full_name = full_name,
                                                 !.is_superuser = is_superuser])

update_user_admin(user_id, email, full_name, is_superuser, current_user_id) ==
    LET user == get_user_by_id(user_id)
    IN  IF user = NoUser THEN [status |-> 404, users |-> users, id |-> 0]
        ELSE IF user.id = current_user_id /\ ~is_superuser
        THEN [status |-> 400, users |-> users, id |-> 0]
        ELSE IF user.email # email /\ get_user_by_email(email) # NoUser
        THEN [status |-> 409, users |-> users, id |-> 0]
        ELSE repo_update_user(user, [user EXCEPT !.email = email,
                                                 !.full_name = full_name,
                                                 !.is_superuser = is_superuser])

(***************************************************************************)
(* app/auth/service.py                                                     *)
(***************************************************************************)
\* authenticate_user without the test of is_active.
authenticate_user_any_state(email, password) ==
    LET user == get_user_by_email(email)
    IN  IF user = NoUser \/ ~verify_password(password, user.hashed_password)
        THEN [status |-> 401, user |-> 0]
        ELSE [status |-> 200, user |-> user.id]

authenticate_user(email, password) ==
    LET user == get_user_by_email(email)
    IN  IF user = NoUser \/ ~verify_password(password, user.hashed_password)
        THEN [status |-> 401, user |-> 0]
        ELSE IF ~user.is_active THEN [status |-> 403, user |-> 0]
        ELSE [status |-> 200, user |-> user.id]

(***************************************************************************)
(* Handlers of app/auth/routes.py and app/admin/auth.py.                   *)
(*   s: the browser session of the request; tok: the CSRF material it      *)
(*   carries; limited: whether the rate limiter is over its limit.         *)
(***************************************************************************)
login(s, tok, email, password, limited) ==
    LET g == Gate(s, "POST", "/auth/login", tok, "none", TRUE)
        a == authenticate_user(email, password)
    IN  IF g.status # 200 THEN Reject("login", s, g)
        ELSE IF limited THEN Limited("login", s, g)
        ELSE /\ session' = IF a.status = 200
                           THEN [session EXCEPT ![s].user_id = a.user]
                           ELSE session
             /\ Respond("login", s, a.status,
                        IF a.status = 200 THEN "success" ELSE "failed", "handler")
             /\ UNCHANGED <<userVars, catalogVars, contentVars>>

\* logout without request.session.clear().
logout_keeps_session(s, tok) ==
    LET g == Gate(s, "POST", "/auth/logout", tok, "user", FALSE)
    IN  IF g.status # 200 THEN Reject("logout", s, g)
        ELSE /\ Respond("logout", s, 200, "success", "handler")
             /\ UNCHANGED <<session, userVars, catalogVars, contentVars>>

logout(s, tok) ==
    LET g == Gate(s, "POST", "/auth/logout", tok, "user", FALSE)
    IN  IF g.status # 200 THEN Reject("logout", s, g)
        ELSE /\ session' = Cleared(s)
             /\ Respond("logout", s, 200, "success", "handler")
             /\ UNCHANGED <<userVars, catalogVars, contentVars>>

get_me(s) ==
    LET g == Gate(s, "GET", "/auth/me", [header |-> None, ctype |-> "text/plain", form |-> None],
                  "user", FALSE)
    IN  IF g.status # 200 THEN Reject("get_me", s, g)
        ELSE /\ Respond("get_me", s, 200, "success", "handler")
             /\ UNCHANGED <<session, userVars, catalogVars, contentVars>>

\* GET /admin/login: redirects a session that holds a user id, renders the
\* login template (which stores a CSRF token t when there is none) otherwise.
admin_login_page(s, t) ==
    /\ session' = IF session[s].user_id # 0 THEN session
                  ELSE generate_csrf_token(session, s, t)
    /\ Respond("admin_login_page", s, IF session[s].user_id # 0 THEN 302 ELSE 200,
               "page", "handler")
    /\ UNCHANGED <<userVars, catalogVars, contentVars>>

admin_login(s, tok, email, password, limited) ==
    LET g == Gate(s, "POST", "/admin/login", tok, "none", TRUE)
        a == authenticate_user(email, password)
    IN  IF g.status # 200 THEN Reject("admin_login", s, g)
        ELSE IF limited THEN Limited("admin_login", s, g)
        ELSE IF a.status # 200
        THEN /\ Respond("admin_login", s, a.status, "failed", "handler")
             /\ UNCHANGED <<session, userVars, catalogVars, contentVars>>
        ELSE IF ~get_user_by_id(a.user).is_superuser
        THEN /\ Respond("admin_login", s, 403, "failed", "handler")
             /\ UNCHANGED <<session, userVars, catalogVars, contentVars>>
        ELSE /\ session' = [session EXCEPT ![s].user_id = a.user]
             /\ Respond("admin_login", s, 302, "success", "handler")
             /\ UNCHANGED <<userVars, catalogVars, contentVars>>

admin_logout(s, tok) ==
    LET g == Gate(s, "POST", "/admin/logout", tok, "none", FALSE)
    IN  IF g.status # 200 THEN Reject("admin_logout", s, g)
        ELSE /\ session' = Cleared(s)
             /\ Respond("admin_logout", s, 302, "success", "handler")
             /\ UNCHANGED <<userVars, catalogVars, contentVars>>

(***************************************************************************)
(* Public pages of app/landing/routes.py: the router-level dependency      *)
(* set_current_user_optional, then a template render.                      *)
(***************************************************************************)
index(s, t) ==
    LET g == Gate(s, "GET", "/", [header |-> None, ctype |-> "text/plain", form |-> None],
                  "optional", FALSE)
    IN  /\ session' = generate_csrf_token(AfterGate(s, g), s, t)
        /\ Respond("index", s, 200, "page", "handler")
        /\ UNCHANGED <<userVars, catalogVars, contentVars>>

\* A route depending on get_current_user_optional: the dependency alone.
current_user_optional(s) ==
    LET r == get_current_user_optional(s)
    IN  /\ session' = IF r.clear THEN Cleared(s) ELSE session
        /\ Respond("current_user_optional", s, 200, "resolved", "handler")
        /\ UNCHANGED <<userVars, catalogVars, contentVars>>

\* Requests no route answers with a handler: POST to the static mount or
\* to the health check passes the middleware and ends 405.
unrouted(s, method, path, tok) ==
    LET g == Gate(s, method, path, tok, "none", FALSE)
    IN  IF g.status # 200 THEN Reject("unrouted", s, g)
        ELSE /\ Respond("unrouted", s, IF method = "GET" THEN 200 ELSE 405, "none", "router")
             /\ UNCHANGED <<session, userVars, catalogVars, contentVars>>

(***************************************************************************)
(* app/users/routes.py                                                     *)
(***************************************************************************)
register_post(s, tok, email, username, password, full_name, limited) ==
    LET g == Gate(s, "POST", "/auth/register", tok, "none", TRUE)
        r == create_user(email, username, password, full_name)
    IN  /\ next_user_id <= MaxUsers
        /\ IF g.status # 200 THEN Reject("register_post", s, g)
           ELSE IF limited THEN Limited("register_post", s, g)
           ELSE /\ users' = r.users
                /\ next_user_id' = IF r.status = 200 THEN next_user_id + 1 ELSE next_user_id
                /\ Respond("register_post", s, r.status,
                           IF r.status = 200 THEN "success" ELSE "failed", "handler")
                /\ UNCHANGED <<session, catalogVars, contentVars>>

\* update_user_service has no route: the service call alone.
user_update(user_id, user_data) ==
    LET r == update_user_service(user_id, user_data)
    IN  /\ users' = r.users
        /\ Respond("update_user_service", "-", r.status,
                   IF r.status = 200 THEN "success" ELSE "failed", "handler")
        /\ UNCHANGED <<next_user_id, session, catalogVars, contentVars>>

(***************************************************************************)
(* app/admin/users.py and app/admin/dashboard.py                           *)
(***************************************************************************)
AdminPages == {"/admin/", "/admin/users/", "/admin/users/add"}

\* GET pages of the back office that only read and render.  The dashboard
\* renders with app/core/templates.py, which creates no CSRF token; the
\* users pages render with app/core/web/templates.py, which does.
admin_page(s, page, t) ==
    LET g == Gate(s, "GET", page, [header |-> None, ctype |-> "text/plain", form |-> None],
                  "superuser", FALSE)
    IN  IF g.status # 200 THEN Reject("admin_page", s, g)
        ELSE /\ session' = IF page = "/admin/" THEN session
                           ELSE generate_csrf_token(session, s, t)
             /\ Respond("admin_page", s, 200, "page", "handler")
             /\ UNCHANGED <<userVars, catalogVars, contentVars>>

admin_user_edit_form(s, user_id, t) ==
    LET g == Gate(s, "GET", "/admin/users/{user_id}/edit",
                  [header |-> None, ctype |-> "text/plain", form |-> None],
                  "superuser", FALSE)
    IN  IF g.status # 200 THEN Reject("admin_user_edit_form", s, g)
        ELSE IF get_user_by_id(user_id) = NoUser
        THEN /\ Respond("admin_user_edit_form", s, 404, "not_found", "handler")
             /\ UNCHANGED <<session, userVars, catalogVars, contentVars>>
        ELSE /\ session' = generate_csrf_token(session, s, t)
             /\ Respond("admin_user_edit_form", s, 200, "page", "handler")
             /\ UNCHANGED <<userVars, catalogVars, contentVars>>

admin_user_add(s, tok, email, username, full_name, password, is_superuser) ==
    LET g == Gate(s, "POST", "/admin/users/add", tok, "superuser", TRUE)
        r == create_user(email, username, password, full_name)
        promoted == {IF u.id = r.id THEN [u EXCEPT !.is_superuser = TRUE] ELSE u :
                     u \in r.users}
    IN  /\ next_user_id <= MaxUsers
        /\ IF g.status # 200 THEN Reject("admin_user_add", s, g)
           ELSE /\ users' = IF r.status = 200 /\ is_superuser THEN promoted ELSE r.users
                /\ next_user_id' = IF r.status = 200 THEN next_user_id + 1 ELSE next_user_id
                /\ Respond("admin_user_add", s, IF r.status = 500 THEN 500 ELSE 303,
                           CASE r.status = 200 -> "success=created"
                             [] r.status = 409 -> "error=already_exists"
                             [] r.status = 400 -> "error=invalid_password"
                             [] OTHER -> "error=unknown",
                           "handler")
                /\ UNCHANGED <<session, catalogVars, contentVars>>

admin_user_edit(s, tok, user_id, full_name, email, is_superuser) ==
    LET g == Gate(s, "POST", "/admin/users/{user_id}/edit", tok, "superuser", TRUE)
        r == update_user_admin(user_id, email, full_name, is_superuser, g.user)
    IN  IF g.status # 200 THEN Reject("admin_user_edit", s, g)
        ELSE /\ users' = r.users
             /\ Respond("admin_user_edit", s, IF r.status = 500 THEN 500 ELSE 303,
                        CASE r.status = 200 -> "success=updated"
                          [] r.status = 404 -> "error=not_found"
                          [] r.status = 400 -> "error=cannot_remove_own_superuser"
                          [] r.status = 409 -> "error=email_exists"
                          [] OTHER -> "error=unknown",
                        "handler")
             /\ UNCHANGED <<next_user_id, session, catalogVars, contentVars>>

admin_user_delete(s, tok, user_id) ==
    LET g == Gate(s, "POST", "/admin/users/{user_id}/delete", tok, "superuser", FALSE)
        user == get_user_by_id(user_id)
    IN  IF g.status # 200 THEN Reject("admin_user_delete", s, g)
        ELSE IF user = NoUser
        THEN /\ Respond("admin_user_delete", s, 303, "error=not_found", "handler")
             /\ UNCHANGED <<session, userVars, catalogVars, contentVars>>
        ELSE IF user.id = g.user
        THEN /\ Respond("admin_user_delete", s, 303, "error=cannot_delete_yourself", "handler")
             /\ UNCHANGED <<session, userVars, catalogVars, contentVars>>
        ELSE /\ users' = users \ {user}
             /\ Respond("admin_user_delete", s, 303, "success=deleted", "handler")
             /\ UNCHANGED <<next_user_id, session, catalogVars, contentVars>>

(***************************************************************************)
(* app/core/security/file_validator.py.  An upload is the file part of a   *)
(* multipart request: its filename, its declared content type, the class   *)
(* of its bytes (kind), their number (size) and the position of the        *)
(* stream (pos).  A file on disk records its path, the upload it was       *)
(* written from and the number of bytes written.                           *)
(***************************************************************************)
ALLOWED_IMAGE_EXTENSIONS == {".jpg", ".jpeg", ".png", ".gif", ".webp", ".svg"}

ALLOWED_IMAGE_MIMES == {"image/jpeg", "image/png", "image/gif", "image/webp", "image/svg+xml"}

MAX_IMAGE_SIZE == 10 * 1024 * 1024

MAX_LOGO_SIZE == 5 * 1024 * 1024

Filenames == {"", "a.png", "a.PNG", "a.jpg", "a.jpeg", "a.gif", "a.webp", "a.svg",
              "a.exe", "a", ".png"}

\* Path(filename).suffix.lower(); os.path.splitext(filename)[1].lower()
\* agrees with it on these names (a leading dot starts no suffix).
suffix_lower(filename) ==
    CASE filename \in {"a.png", "a.PNG"} -> ".png"
      [] filename = "a.jpg" -> ".jpg"
      [] filename = "a.jpeg" -> ".jpeg"
      [] filename = "a.gif" -> ".gif"
      [] filename = "a.webp" -> ".webp"
      [] filename = "a.svg" -> ".svg"
      [] filename = "a.exe" -> ".exe"
      [] OTHER -> ""

ContentTypeValues == ALLOWED_IMAGE_MIMES \cup {"text/html"}

\* Classes of file content: the four raster families the validator allows,
\* a raster format imghdr knows but the validator does not allow (bmp), a
\* document with an <svg tag in its first 200 bytes (svg), an XML document
\* that starts with <?xml and holds no <svg tag (xml), other bytes (text),
\* and no bytes at all (empty).
Kinds == {"jpeg", "png", "gif", "webp", "bmp", "svg", "xml", "text", "empty"}

Sizes == {0, 64, MAX_LOGO_SIZE, MAX_LOGO_SIZE + 1, MAX_IMAGE_SIZE, MAX_IMAGE_SIZE + 1}

Uploads ==
    {u \in [filename : Filenames, content_type : ContentTypeValues, kind : Kinds,
            size : Sizes, pos : {0}] : (u.size = 0) <=> (u.kind = "empty")}

\* imghdr.what(None, h=file_content)
imghdr_what(kind) ==
    IF kind \in {"jpeg", "png", "gif", "webp", "bmp"} THEN kind ELSE None

\* file_content.startswith(b'<?xml') or file_content.startswith(b'<svg')
\* or b'<svg' in file_content[:200]
svg_heuristic(kind) == kind \in {"svg", "xml"}

\* The outcome of a validation: ok, or the FileValidationError (status 400)
\* with its reason, and where the stream stands afterwards.
Valid(pos) == [ok |-> TRUE, status |-> 200, detail |-> "valid", pos |-> pos]

FileValidationError(detail, pos) ==
    [ok |-> FALSE, status |-> 400, detail |-> detail, pos |-> pos]

\* validate_image_upload whose size test is file_size >= max_size.
validate_image_upload_ge(file, max_size) ==
    LET file_extension == suffix_lower(file.filename)
        file_size == file.size - file.pos
        image_type == imghdr_what(file.kind)
    IN  IF file.filename = "" THEN FileValidationError("required", file.pos)
        ELSE IF file_extension \notin ALLOWED_IMAGE_EXTENSIONS
        THEN FileValidationError("bad_extension", file.pos)
        ELSE IF file.content_type \notin ALLOWED_IMAGE_MIMES
        THEN FileValidationError("bad_content_type", file.pos)
        ELSE IF file_size = 0 THEN FileValidationError("empty", file.size)
        ELSE IF file_size >= max_size THEN FileValidationError("too_large", file.size)
        ELSE IF file_extension = ".svg"
        THEN IF ~svg_heuristic(file.kind) THEN FileValidationError("invalid_svg", file.size)
             ELSE Valid(0)
        ELSE IF image_type = None THEN FileValidationError("not_an_image", file.size)
        ELSE IF image_type \notin {"jpeg", "png", "gif", "webp"}
        THEN FileValidationError("unsupported_format", file.size)
        ELSE Valid(0)

\* validate_image_upload without the final file.seek(0).
validate_image_upload_no_seek(file, max_size) ==
    LET file_extension == suffix_lower(file.filename)
        file_size == file.size - file.pos
        image_type == imghdr_what(file.kind)
    IN  IF file.filename = "" THEN FileValidationError("required", file.pos)
        ELSE IF file_extension \notin ALLOWED_IMAGE_EXTENSIONS
        THEN FileValidationError("bad_extension", file.pos)
        ELSE IF file.content_type \notin ALLOWED_IMAGE_MIMES
        THEN FileValidationError("bad_content_type", file.pos)
        ELSE IF file_size = 0 THEN FileValidationError("empty", file.size)
        ELSE IF file_size > max_size THEN FileValidationError("too_large", file.size)
        ELSE IF file_extension = ".svg"
        THEN IF ~svg_heuristic(file.kind) THEN FileValidationError("invalid_svg", file.size)
             ELSE Valid(file.size)
        ELSE IF image_type = None THEN FileValidationError("not_an_image", file.size)
        ELSE IF image_type \notin {"jpeg", "png", "gif", "webp"}
        THEN FileValidationError("unsupported_format", file.size)
        ELSE Valid(file.size)

validate_image_upload(file, max_size) ==
    LET file_extension == suffix_lower(file.filename)
        file_size == file.size - file.pos
        image_type == imghdr_what(file.kind)
    IN  IF file.filename = "" THEN FileValidationError("required", file.pos)
        ELSE IF file_extension \notin ALLOWED_IMAGE_EXTENSIONS
        THEN FileValidationError("bad_extension", file.pos)
        ELSE IF file.content_type \notin ALLOWED_IMAGE_MIMES
        THEN FileValidationError("bad_content_type", file.pos)
        ELSE IF file_size = 0 THEN FileValidationError("empty", file.size)
        ELSE IF file_size > max_size THEN FileValidationError("too_large", file.size)
        ELSE IF file_extension = ".svg"
        THEN IF ~svg_heuristic(file.kind) THEN FileValidationError("invalid_svg", file.size)
             ELSE Valid(0)
        ELSE IF image_type = None THEN FileValidationError("not_an_image", file.size)
        ELSE IF image_type \notin {"jpeg", "png", "gif", "webp"}
        THEN FileValidationError("unsupported_format", file.size)
        ELSE Valid(0)

\* The uploads of a request after validate_multiple_images returned: the
\* files it validated stand where validate_image_upload left them.
validate_multiple_images(upload_files, max_files, max_size_per_file) ==
    LET named == {i \in DOMAIN upload_files : upload_files[i].filename # ""}
        failed == {i \in named :
                     ~validate_image_upload(upload_files[i], max_size_per_file).ok}
        first == CHOOSE i \in failed : \A j \in failed : i <= j
    IN  IF upload_files = <<>> \/ (Len(upload_files) = 1 /\ upload_files[1].filename = "")
        THEN [ok |-> TRUE, status |-> 200, detail |-> "valid", files |-> upload_files]
        ELSE IF Cardinality(named) > max_files
        THEN [ok |-> FALSE, status |-> 400, detail |-> "too_many", files |-> upload_files]
        ELSE IF failed # {}
        THEN [ok |-> FALSE, status |-> 400,
              detail |-> validate_image_upload(upload_files[first], max_size_per_file).detail,
              files |-> upload_files]
        ELSE [ok |-> TRUE, status |-> 200, detail |-> "valid",
              files |-> [i \in DOMAIN upload_files |->
                           IF i \in named
                           THEN [upload_files[i] EXCEPT
                                   !.pos = validate_image_upload(upload_files[i],
                                                                 max_size_per_file).pos]
                           ELSE upload_files[i]]]

\* How a write to disk can go wrong: the directory cannot be made, the file
\* cannot be opened, or the write stops after the file exists.
SaveFailures == {"mkdir", "open", "write"}

Received(file) == [file EXCEPT !.pos = 0]

\* The file at file_path once content has been written in full / in part.
Written(file_path, file, encoding) ==
    [path |-> file_path, upload |-> Received(file), written |-> file.size - file.pos,
     encoding |-> encoding]

Partial(file_path, file, encoding) ==
    [path |-> file_path, upload |-> Received(file), written |-> 0, encoding |-> encoding]

\* if file_path.exists(): os.remove(file_path)
remove_file(disk, file_path) == {f \in disk : f.path # file_path}

\* save_uploaded_file that leaves the file where the write stopped.
save_uploaded_file_no_cleanup(disk, file, file_path, fail) ==
    CASE fail = "mkdir" -> [raised |-> "Exception", files |-> disk]
      [] fail = "open" -> [raised |-> "Exception", files |-> disk]
      [] fail = "write" ->
            [raised |-> "Exception", files |-> disk \cup {Partial(file_path, file, "raw")}]
      [] OTHER -> [raised |-> "none", files |-> disk \cup {Written(file_path, file, "raw")}]

\* save_uploaded_file on the disk it finds: the disk it leaves and what it
\* raises ("none": it returned file_path).  mkdir runs before the try block.
save_uploaded_file(disk, file, file_path, fail) ==
    CASE fail = "mkdir" -> [raised |-> "Exception", files |-> disk]
      [] fail = "open" -> [raised |-> "Exception", files |-> remove_file(disk, file_path)]
      [] fail = "write" ->
            [raised |-> "Exception",
             files |-> remove_file(disk \cup {Partial(file_path, file, "raw")}, file_path)]
      [] OTHER -> [raised |-> "none", files |-> disk \cup {Written(file_path, file, "raw")}]

\* compress_and_save_image: an SVG is written as it is, a raster image is
\* decoded by Pillow (which fails on bytes that are no image), resized and
\* written re-encoded.
compress_and_save_image(disk, file, file_path, fail) ==
    LET encoding == IF suffix_lower(file.filename) = ".svg" THEN "raw" ELSE "compressed"
        decodes == file.kind \in {"jpeg", "png", "gif", "webp", "bmp"} /\ file.pos = 0
    IN  CASE fail = "mkdir" -> [raised |-> "Exception", files |-> disk]
          [] fail = "open" \/ (encoding = "compressed" /\ ~decodes) ->
                [raised |-> "Exception", files |-> remove_file(disk, file_path)]
          [] fail = "write" ->
                [raised |-> "Exception",
                 files |-> remove_file(disk \cup {Partial(file_path, file, encoding)},
                                       file_path)]
          [] OTHER -> [raised |-> "none",
                       files |-> disk \cup {Written(file_path, file, encoding)}]

\* for image in images: save_uploaded_file(...): every file of the request
\* in turn, under fresh names; fail is the fate of the last one.
save_images(disk, upload_files, dir, first_n, fail) ==
    LET count == Len(upload_files)
        path(i) == [dir |-> dir, n |-> first_n + i - 1]
        before == disk \cup {Written(path(i), upload_files[i], "raw") : i \in 1..(count - 1)}
        final == save_uploaded_file(before, upload_files[count], path(count), fail)
    IN  IF count = 0 THEN [raised |-> "none", files |-> disk, urls |-> <<>>]
        ELSE [raised |-> final.raised, files |-> final.files,
              urls |-> [i \in 1..count |-> path(i)]]

(***************************************************************************)
(* Cities and projects: app/projects/models.py, repository.py, service.py  *)
(***************************************************************************)
NoCity == [id |-> 0, name |-> None, slug |-> None, is_active |-> FALSE, sort_order |-> 0]

NoProject == [id |-> 0, title |-> None, slug |-> None, subtitle |-> None, city_id |-> 0,
              status |-> None, images |-> <<>>, is_published |-> FALSE]

Titles == {"Almaty", "Astana", "!!!"}

\* generate_slug on the titles of the model: lower-cased, every character
\* that is not a letter, a digit or a hyphen dropped.
generate_slug(text) ==
    CASE text = "Almaty" -> "almaty"
      [] text = "Astana" -> "astana"
      [] OTHER -> ""

\* slug = Form(""): a blank slug is replaced by one generated from the name.
slug_or_generated(slug, text) == IF slug = "" THEN generate_slug(text) ELSE slug

get_city_by_id(city_id) ==
    IF \E c \in cities : c.id = city_id
    THEN CHOOSE c \in cities : c.id = city_id
    ELSE NoCity

get_city_by_slug(slug) ==
    IF \E c \in cities : c.slug = slug
    THEN CHOOSE c \in cities : c.slug = slug
    ELSE NoCity

get_project_by_id(project_id) ==
    IF \E p \in projects : p.id = project_id
    THEN CHOOSE p \in projects : p.id = project_id
    ELSE NoProject

get_project_by_slug(slug) ==
    IF \E p \in projects : p.slug = slug
    THEN CHOOSE p \in projects : p.slug = slug
    ELSE NoProject

\* get_projects_by_city that filters on is_published whatever the caller asks.
get_projects_by_city_published(city_id, published_only) ==
    {p \in projects : p.city_id = city_id /\ p.is_published}

get_projects_by_city(city_id, published_only) ==
    {p \in projects : p.city_id = city_id /\ (published_only => p.is_published)}

\* The constraints of the two tables: unique slugs, and projects.city_id a
\* foreign key to cities.id.  A commit that breaks one raises IntegrityError.
CatalogConstraints(cs, ps) ==
    /\ \A c, d \in cs : c # d => (c.id # d.id /\ c.slug # d.slug)
    /\ \A p, q \in ps : p # q => (p.id # q.id /\ p.slug # q.slug)
    /\ \A p \in ps : \E c \in cs : c.id = p.city_id

\* session.commit() of a unit of work that leaves the tables cs and ps.
catalog_commit(cs, ps) ==
    IF CatalogConstraints(cs, ps)
    THEN [status |-> 200, detail |-> "ok", cities |-> cs, projects |-> ps]
    ELSE [status |-> 500, detail |-> "IntegrityError", cities |-> cities, projects |-> projects]

catalog_error(status, detail) ==
    [status |-> status, detail |-> detail, cities |-> cities, projects |-> projects]

create_city(name, slug, is_active, sort_order) ==
    IF get_city_by_slug(slug) # NoCity THEN catalog_error(409, "city_slug_exists")
    ELSE catalog_commit(cities \cup {[id |-> next_city_id, name |-> name, slug |-> slug,
                                      is_active |-> is_active, sort_order |-> sort_order]},
                        projects)

\* An update object: a record holding the fields that are set.  A string
\* field may also hold None, which the services treat as unset.
IsSet(data, f) == f \in DOMAIN data /\ data[f] # None

update_city(city_id, city_data) ==
    LET city == get_city_by_id(city_id)
        change_slug == IsSet(city_data, "slug") /\ city_data.slug # ""
                       /\ city_data.slug # city.slug
    IN  IF city = NoCity THEN catalog_error(404, "city_not_found")
        ELSE IF change_slug /\ get_city_by_slug(city_data.slug) # NoCity
        THEN catalog_error(409, "city_slug_exists")
        ELSE catalog_commit((cities \ {city}) \cup
               {[city EXCEPT !.slug = IF change_slug THEN city_data.slug ELSE @,
                             !.name = IF IsSet(city_data, "name") THEN city_data.name ELSE @,
                             !.is_active = IF "is_active" \in DOMAIN city_data
                                           THEN city_data.is_active ELSE @,
                             !.sort_order = IF "sort_order" \in DOMAIN city_data
                                            THEN city_data.sort_order ELSE @]},
               projects)

delete_city(city_id) ==
    LET city == get_city_by_id(city_id)
    IN  IF city = NoCity THEN catalog_error(404, "city_not_found")
        ELSE IF get_projects_by_city(city_id, FALSE) # {}
        THEN catalog_error(400, "city_has_projects")
        ELSE catalog_commit(cities \ {city}, projects)

create_project(title, slug, subtitle, city_id, status, images, is_published) ==
    IF get_project_by_slug(slug) # NoProject THEN catalog_error(409, "project_slug_exists")
    ELSE IF get_city_by_id(city_id) = NoCity THEN catalog_error(404, "city_not_found")
    ELSE catalog_commit(cities,
                        projects \cup {[id |-> next_project_id, title |-> title,
                                        slug |-> slug, subtitle |-> subtitle,
                                        city_id |-> city_id, status |-> status,
                                        images |-> images, is_published |-> is_published]})

\* update_project that assigns every field of the ProjectUpdate object, the
\* unset ones with their default None.
update_project_overwrites(project_id, project_data) ==
    LET project == get_project_by_id(project_id)
        change_slug == IsSet(project_data, "slug") /\ project_data.slug # ""
                       /\ project_data.slug # project.slug
        change_city == "city_id" \in DOMAIN project_data /\ project_data.city_id # 0
                       /\ project_data.city_id # project.city_id
    IN  IF project = NoProject THEN catalog_error(404, "project_not_found")
        ELSE IF change_slug /\ get_project_by_slug(project_data.slug) # NoProject
        THEN catalog_error(409, "project_slug_exists")
        ELSE IF change_city /\ get_city_by_id(project_data.city_id) = NoCity
        THEN catalog_error(404, "city_not_found")
        ELSE catalog_commit(cities, (projects \ {project}) \cup
               {[project EXCEPT
                   !.slug = IF change_slug THEN project_data.slug ELSE @,
                   !.city_id = IF change_city THEN project_data.city_id ELSE @,
                   !.title = IF IsSet(project_data, "title") THEN project_data.title ELSE None,
                   !.subtitle = IF IsSet(project_data, "subtitle")
                                THEN project_data.subtitle ELSE None,
                   !.status = IF IsSet(project_data, "status") THEN project_data.status
                              ELSE None,
                   !.images = IF "images" \in DOMAIN project_data
                              THEN project_data.images ELSE <<>>,
                   !.is_published = IF "is_published" \in DOMAIN project_data
                                    THEN project_data.is_published ELSE FALSE]})

\* project_data: a ProjectUpdate; images = <<>> stands for images = None.
update_project(project_id, project_data) ==
    LET project == get_project_by_id(project_id)
        change_slug == IsSet(project_data, "slug") /\ project_data.slug # ""
                       /\ project_data.slug # project.slug
        change_city == "city_id" \in DOMAIN project_data /\ project_data.city_id # 0
                       /\ project_data.city_id # project.city_id
    IN  IF project = NoProject THEN catalog_error(404, "project_not_found")
        ELSE IF change_slug /\ get_project_by_slug(project_data.slug) # NoProject
        THEN catalog_error(409, "project_slug_exists")
        ELSE IF change_city /\ get_city_by_id(project_data.city_id) = NoCity
        THEN catalog_error(404, "city_not_found")
        ELSE catalog_commit(cities, (projects \ {project}) \cup
               {[project EXCEPT
                   !.slug = IF change_slug THEN project_data.slug ELSE @,
                   !.city_id = IF change_city THEN project_data.city_id ELSE @,
                   !.title = IF IsSet(project_data, "title") THEN project_data.title ELSE @,
                   !.subtitle = IF IsSet(project_data, "subtitle")
                                THEN project_data.subtitle ELSE @,
                   !.status = IF IsSet(project_data, "status") THEN project_data.status ELSE @,
                   !.images = IF "images" \in DOMAIN project_data /\ project_data.images # <<>>
                              THEN project_data.images ELSE @,
                   !.is_published = IF "is_published" \in DOMAIN project_data
                                    THEN project_data.is_published ELSE @]})

delete_project(project_id) ==
    LET project == get_project_by_id(project_id)
    IN  IF project = NoProject THEN catalog_error(404, "project_not_found")
        ELSE catalog_commit(cities, projects \ {project})

\* toggle_publish that publishes whatever the flag was.
toggle_publish_sets(project_id) ==
    LET project == get_project_by_id(project_id)
    IN  IF project = NoProject THEN catalog_error(404, "project_not_found")
        ELSE catalog_commit(cities, (projects \ {project}) \cup
               {[project EXCEPT !.is_published = TRUE]})

toggle_publish(project_id) ==
    LET project == get_project_by_id(project_id)
    IN  IF project = NoProject THEN catalog_error(404, "project_not_found")
        ELSE catalog_commit(cities, (projects \ {project}) \cup
               {[project EXCEPT !.is_published = ~project.is_published]})

(***************************************************************************)
(* app/admin/cities.py and app/admin/projects.py.  Every handler catches   *)
(* Exception and answers with a redirect that carries the error.           *)
(***************************************************************************)
CatalogRespond(route, s, r, success) ==
    Respond(route, s, 303, IF r.status = 200 THEN success ELSE r.detail, "handler")

admin_city_add(s, tok, name, slug, is_active, sort_order) ==
    LET g == Gate(s, "POST", "/admin/cities/add", tok, "superuser", TRUE)
        r == create_city(name, slug_or_generated(slug, name), is_active, sort_order)
    IN  /\ next_city_id <= MaxCities
        /\ IF g.status # 200 THEN Reject("admin_city_add", s, g)
           ELSE /\ cities' = r.cities
                /\ next_city_id' = IF r.status = 200 THEN next_city_id + 1 ELSE next_city_id
                /\ CatalogRespond("admin_city_add", s, r, "success=created")
                /\ UNCHANGED <<session, userVars, contentVars, projects, next_project_id>>

admin_city_edit(s, tok, city_id, name, slug, is_active, sort_order) ==
    LET g == Gate(s, "POST", "/admin/cities/{city_id}/edit", tok, "superuser", TRUE)
        r == update_city(city_id, [name |-> name, slug |-> slug_or_generated(slug, name),
                                   is_active |-> is_active, sort_order |-> sort_order])
    IN  IF g.status # 200 THEN Reject("admin_city_edit", s, g)
        ELSE /\ cities' = r.cities
             /\ CatalogRespond("admin_city_edit", s, r, "success=updated")
             /\ UNCHANGED <<session, userVars, contentVars, next_city_id, projects, next_project_id>>

admin_city_delete(s, tok, city_id) ==
    LET g == Gate(s, "POST", "/admin/cities/{city_id}/delete", tok, "superuser", FALSE)
        r == delete_city(city_id)
    IN  IF g.status # 200 THEN Reject("admin_city_delete", s, g)
        ELSE /\ cities' = r.cities
             /\ CatalogRespond("admin_city_delete", s, r, "success=deleted")
             /\ UNCHANGED <<session, userVars, contentVars, next_city_id, projects, next_project_id>>

admin_project_add(s, tok, title, slug, subtitle, city_id, status, is_published, images, fail) ==
    LET g == Gate(s, "POST", "/admin/projects/add", tok, "superuser", TRUE)
        sent == IF tok.ctype = "multipart/form-data" THEN images ELSE <<>>
        has_images == sent # <<>> /\ sent[1].filename # ""
        v == validate_multiple_images(sent, 10, MAX_IMAGE_SIZE)
        sv == save_images(files, v.files, "projects", next_file_id, fail)
        r == create_project(title, slug_or_generated(slug, title), subtitle, city_id,
                            status, IF has_images THEN sv.urls ELSE <<>>, is_published)
    IN  /\ next_project_id <= MaxProjects
        /\ next_file_id + Len(sent) <= MaxFiles + 1
        /\ IF g.status # 200 THEN Reject("admin_project_add", s, g)
           ELSE IF has_images /\ ~v.ok
           THEN /\ Respond("admin_project_add", s, 303, v.detail, "handler")
                /\ UNCHANGED <<session, userVars, catalogVars, contentVars>>
           ELSE IF has_images /\ sv.raised # "none"
           THEN /\ files' = sv.files
                /\ next_file_id' = next_file_id + Len(sent) - 1
                /\ Respond("admin_project_add", s, 303, "save_failed", "handler")
                /\ UNCHANGED <<session, userVars, catalogVars, newsVars, settingsVars>>
           ELSE /\ projects' = r.projects
                /\ next_project_id' = IF r.status = 200 THEN next_project_id + 1
                                      ELSE next_project_id
                /\ files' = IF has_images THEN sv.files ELSE files
                /\ next_file_id' = IF has_images THEN next_file_id + Len(sent)
                                   ELSE next_file_id
                /\ CatalogRespond("admin_project_add", s, r, "success=created")
                /\ UNCHANGED <<session, userVars, newsVars, settingsVars, cities,
                               next_city_id>>

admin_project_edit(s, tok, project_id, title, slug, subtitle, city_id, status, is_published, keep_images, new_images, fail) ==
    LET g == Gate(s, "POST", "/admin/projects/{project_id}/edit", tok, "superuser", TRUE)
        project == get_project_by_id(project_id)
        sent == IF tok.ctype = "multipart/form-data" THEN new_images ELSE <<>>
        has_images == sent # <<>> /\ sent[1].filename # ""
        deleted_urls == {project.images[i] : i \in {j \in DOMAIN project.images :
                                                      project.images[j] \notin keep_images}}
        \* os.remove(file_path) of every image that is not kept
        disk == {f \in files : f.path \notin deleted_urls}
        kept_urls == SelectSeq(project.images, LAMBDA url : url \in keep_images)
        v == validate_multiple_images(sent, 10, MAX_IMAGE_SIZE)
        sv == save_images(disk, v.files, "projects", next_file_id, fail)
        r == update_project(project_id,
               [title |-> title, slug |-> slug_or_generated(slug, title),
                subtitle |-> subtitle, city_id |-> city_id, status |-> status,
                images |-> IF has_images THEN kept_urls \o sv.urls ELSE kept_urls,
                is_published |-> is_published])
    IN  /\ next_file_id + Len(sent) <= MaxFiles + 1
        /\ IF g.status # 200 THEN Reject("admin_project_edit", s, g)
           ELSE IF project = NoProject
           THEN /\ Respond("admin_project_edit", s, 303, "project_not_found", "handler")
                /\ UNCHANGED <<session, userVars, catalogVars, contentVars>>
           ELSE IF has_images /\ ~v.ok
           THEN /\ files' = disk
                /\ Respond("admin_project_edit", s, 303, v.detail, "handler")
                /\ UNCHANGED <<session, userVars, catalogVars, newsVars, next_file_id,
                               settingsVars>>
           ELSE IF has_images /\ sv.raised # "none"
           THEN /\ files' = sv.files
                /\ next_file_id' = next_file_id + Len(sent) - 1
                /\ Respond("admin_project_edit", s, 303, "save_failed", "handler")
                /\ UNCHANGED <<session, userVars, catalogVars, newsVars, settingsVars>>
           ELSE /\ projects' = r.projects
                /\ files' = IF has_images THEN sv.files ELSE disk
                /\ next_file_id' = IF has_images THEN next_file_id + Len(sent)
                                   ELSE next_file_id
                /\ CatalogRespond("admin_project_edit", s, r, "success=updated")
                /\ UNCHANGED <<session, userVars, newsVars, settingsVars, cities,
                               next_city_id, next_project_id>>

admin_project_delete(s, tok, project_id) ==
    LET g == Gate(s, "POST", "/admin/projects/{project_id}/delete", tok, "superuser", FALSE)
        r == delete_project(project_id)
    IN  IF g.status # 200 THEN Reject("admin_project_delete", s, g)
        ELSE /\ projects' = r.projects
             /\ CatalogRespond("admin_project_delete", s, r, "success=deleted")
             /\ UNCHANGED <<session, userVars, contentVars, cities, next_city_id, next_project_id>>

admin_project_toggle_publish(s, tok, project_id) ==
    LET g == Gate(s, "POST", "/admin/projects/{project_id}/toggle-publish", tok,
                  "superuser", FALSE)
        r == toggle_publish(project_id)
    IN  IF g.status # 200 THEN Reject("admin_project_toggle_publish", s, g)
        ELSE /\ projects' = r.projects
             /\ CatalogRespond("admin_project_toggle_publish", s, r, "success=toggled")
             /\ UNCHANGED <<session, userVars, contentVars, cities, next_city_id, next_project_id>>

(***************************************************************************)
(* News: app/news/models.py, repository.py, service.py, app/admin/news.py  *)
(***************************************************************************)
\* The value of a path column that holds no path.
NoPath == [dir |-> "none", n |-> 0]

NoNews == [id |-> 0, title |-> None, slug |-> None, image_path |-> NoPath,
           is_published |-> FALSE]

\* "uploads/news/default.jpg"
DefaultNewsImage == [dir |-> "news", n |-> 0]

get_news_by_id(news_id) ==
    IF \E n \in news : n.id = news_id
    THEN CHOOSE n \in news : n.id = news_id
    ELSE NoNews

get_news_by_slug(slug) ==
    IF \E n \in news : n.slug = slug
    THEN CHOOSE n \in news : n.slug = slug
    ELSE NoNews

\* The constraints of the news table: the primary key and the unique slug.
NewsConstraints(ns) == \A n, m \in ns : n # m => (n.id # m.id /\ n.slug # m.slug)

news_commit(ns) ==
    IF NewsConstraints(ns)
    THEN [status |-> 200, detail |-> "ok", news |-> ns]
    ELSE [status |-> 500, detail |-> "IntegrityError", news |-> news]

news_error(status, detail) == [status |-> status, detail |-> detail, news |-> news]

create_news(title, slug, image_path, is_published) ==
    IF get_news_by_slug(slug) # NoNews THEN news_error(409, "news_slug_exists")
    ELSE news_commit(news \cup {[id |-> next_news_id, title |-> title, slug |-> slug,
                                 image_path |-> image_path,
                                 is_published |-> is_published]})

\* update_news_service without the lookup of the new slug.
update_news_service_no_lookup(news_id, news_data) ==
    LET item == get_news_by_id(news_id)
    IN  IF item = NoNews THEN news_error(404, "news_not_found")
        ELSE news_commit((news \ {item}) \cup
               {[f \in DOMAIN item |->
                   IF f \in DOMAIN news_data THEN news_data[f] ELSE item[f]]})

\* news_data: the fields set in the NewsUpdate object (exclude_unset).
update_news_service(news_id, news_data) ==
    LET item == get_news_by_id(news_id)
    IN  IF item = NoNews THEN news_error(404, "news_not_found")
        ELSE IF "slug" \in DOMAIN news_data /\ news_data.slug # item.slug
                /\ get_news_by_slug(news_data.slug) # NoNews
        THEN news_error(409, "news_slug_exists")
        ELSE news_commit((news \ {item}) \cup
               {[f \in DOMAIN item |->
                   IF f \in DOMAIN news_data THEN news_data[f] ELSE item[f]]})

delete_news_service(news_id) ==
    LET item == get_news_by_id(news_id)
    IN  IF item = NoNews THEN news_error(404, "news_not_found")
        ELSE news_commit(news \ {item})

\* A request that carries files is multipart/form-data: the CSRF middleware
\* reads its token from the x-csrf-token header only.
UploadTok(t) == [header |-> t, ctype |-> "multipart/form-data", form |-> None]

NoUpload == [filename |-> "", content_type |-> "text/html", kind |-> "empty",
             size |-> 0, pos |-> 0]

\* A required file field (File(...)) that the request does not carry.
MissingFile(g) == [g EXCEPT !.status = 422, !.stage = "validation"]

admin_news_add(s, tok, title, slug, is_published, image, fail) ==
    LET g == Gate(s, "POST", "/admin/news/add", tok, "superuser", TRUE)
        has_image == image.filename # ""
        v == validate_image_upload(image, MAX_IMAGE_SIZE)
        file_path == [dir |-> "news", n |-> next_file_id]
        sv == save_uploaded_file(files, [image EXCEPT !.pos = v.pos], file_path, fail)
        r == create_news(title, slug_or_generated(slug, title),
                         IF has_image THEN file_path ELSE DefaultNewsImage, is_published)
    IN  /\ next_news_id <= MaxNews
        /\ next_file_id <= MaxFiles
        /\ IF g.status # 200 THEN Reject("admin_news_add", s, g)
           ELSE IF tok.ctype # "multipart/form-data"
           THEN Reject("admin_news_add", s, MissingFile(g))
           ELSE IF has_image /\ ~v.ok
           THEN /\ Respond("admin_news_add", s, 400, v.detail, "handler")
                /\ UNCHANGED <<session, userVars, catalogVars, contentVars>>
           ELSE IF has_image /\ sv.raised # "none"
           THEN /\ files' = sv.files
                /\ Respond("admin_news_add", s, 500, "save_failed", "handler")
                /\ UNCHANGED <<session, userVars, catalogVars, newsVars, next_file_id,
                               settingsVars>>
           ELSE /\ files' = IF has_image THEN sv.files ELSE files
                /\ next_file_id' = IF has_image THEN next_file_id + 1 ELSE next_file_id
                /\ news' = r.news
                /\ next_news_id' = IF r.status = 200 THEN next_news_id + 1 ELSE next_news_id
                /\ Respond("admin_news_add", s, IF r.status = 200 THEN 302 ELSE 400,
                           IF r.status = 200 THEN "success=created" ELSE r.detail, "handler")
                /\ UNCHANGED <<session, userVars, catalogVars, settingsVars>>

\* A file field the request does not carry is an upload without a filename.
admin_news_edit(s, tok, news_id, title, slug, is_published, image, fail) ==
    LET g == Gate(s, "POST", "/admin/news/{news_id}/edit", tok, "superuser", TRUE)
        item == get_news_by_id(news_id)
        sent == IF tok.ctype = "multipart/form-data" THEN image ELSE NoUpload
        has_image == sent.filename # ""
        v == validate_image_upload(sent, MAX_IMAGE_SIZE)
        file_path == [dir |-> "news", n |-> next_file_id]
        sv == save_uploaded_file(files, [sent EXCEPT !.pos = v.pos], file_path, fail)
        \* old_image_path.unlink() of an image that is not the default one
        kept == IF has_image /\ item.image_path \notin {NoPath, DefaultNewsImage}
                THEN remove_file(sv.files, item.image_path)
                ELSE IF has_image THEN sv.files ELSE files
        r == update_news_service(news_id,
               [title |-> title, slug |-> slug_or_generated(slug, title),
                image_path |-> IF has_image THEN file_path ELSE item.image_path,
                is_published |-> is_published])
    IN  /\ next_file_id <= MaxFiles
        /\ IF g.status # 200 THEN Reject("admin_news_edit", s, g)
           ELSE IF item = NoNews
           THEN /\ Respond("admin_news_edit", s, 404, "news_not_found", "handler")
                /\ UNCHANGED <<session, userVars, catalogVars, contentVars>>
           ELSE IF has_image /\ ~v.ok
           THEN /\ Respond("admin_news_edit", s, 400, v.detail, "handler")
                /\ UNCHANGED <<session, userVars, catalogVars, contentVars>>
           ELSE IF has_image /\ sv.raised # "none"
           THEN /\ files' = sv.files
                /\ Respond("admin_news_edit", s, 500, "save_failed", "handler")
                /\ UNCHANGED <<session, userVars, catalogVars, newsVars, next_file_id,
                               settingsVars>>
           ELSE /\ files' = kept
                /\ next_file_id' = IF has_image THEN next_file_id + 1 ELSE next_file_id
                /\ news' = r.news
                /\ Respond("admin_news_edit", s,
                           IF r.status = 200 THEN 302 ELSE IF r.status = 500 THEN 500 ELSE 400,
                           IF r.status = 200 THEN "success=updated" ELSE r.detail, "handler")
                /\ UNCHANGED <<session, userVars, catalogVars, next_news_id, settingsVars>>

admin_news_delete(s, tok, news_id) ==
    LET g == Gate(s, "POST", "/admin/news/{news_id}/delete", tok, "superuser", FALSE)
        item == get_news_by_id(news_id)
        r == delete_news_service(news_id)
    IN  IF g.status # 200 THEN Reject("admin_news_delete", s, g)
        ELSE IF item = NoNews
        THEN /\ Respond("admin_news_delete", s, 302, "error=delete_failed", "handler")
             /\ UNCHANGED <<session, userVars, catalogVars, contentVars>>
        ELSE /\ news' = r.news
             /\ files' = IF item.image_path \notin {NoPath, DefaultNewsImage}
                         THEN remove_file(files, item.image_path) ELSE files
             /\ Respond("admin_news_delete", s, 302, "success=deleted", "handler")
             /\ UNCHANGED <<session, userVars, catalogVars, next_news_id, next_file_id,
                            settingsVars>>

(***************************************************************************)
(* Site settings: app/landing/models.py, repository.py, service.py and     *)
(* app/admin/settings.py.  get_or_create_settings reads the row and, when  *)
(* there is none, inserts it in a later step: pending holds, per worker,   *)
(* the call that stands between the two.                                   *)
(***************************************************************************)
SETTINGS_ID == 1

Workers == {"w1", "w2"}

CompanyNames == {"Standart Construction", "SC"}

NoSettings == [id |-> 0, company_name |-> None, phone_primary |-> None, logo_path |-> NoPath]

\* The row of a get_or_create_settings that leaves the id to the sequence.
CreatedSettings_sequence_id ==
    [id |-> Cardinality(settings) + 1, company_name |-> "Standart Construction",
     phone_primary |-> None, logo_path |-> NoPath]

\* The row of get_or_create_settings.
CreatedSettings ==
    [id |-> SETTINGS_ID, company_name |-> "Standart Construction",
     phone_primary |-> None, logo_path |-> NoPath]

\* The row of create_default_settings.
DefaultSettings ==
    [id |-> SETTINGS_ID, company_name |-> "Standart Construction",
     phone_primary |-> "+7 (777) 123-45-67", logo_path |-> NoPath]

\* SiteSettingsRepository.get_settings on the table t.
get_settings(t) ==
    IF \E r \in t : r.id = SETTINGS_ID
    THEN CHOOSE r \in t : r.id = SETTINGS_ID
    ELSE NoSettings

\* The primary key of site_settings.
SettingsConstraints(t) == \A a, b \in t : a # b => a.id # b.id

\* session.add(row); session.commit()
settings_insert(row) ==
    IF SettingsConstraints(settings \cup {row})
    THEN [status |-> 200, settings |-> settings \cup {row}]
    ELSE [status |-> 500, settings |-> settings]

Idle == [pc |-> "idle", op |-> "none", sess |-> "-", token |-> None,
         company_name |-> None, logo |-> NoUpload, fail |-> "none"]

Call(op, s, t, company_name, logo, fail) ==
    [pc |-> "insert", op |-> op, sess |-> s, token |-> t,
     company_name |-> company_name, logo |-> logo, fail |-> fail]

\* SiteSettingsService.update_settings on the table t, which holds the row.
update_settings(t, settings_data) ==
    LET row == get_settings(t)
    IN  (t \ {row}) \cup
           {[f \in DOMAIN row |->
               IF f \in DOMAIN settings_data THEN settings_data[f] ELSE row[f]]}

\* What a call does once get_or_create_settings (or the lookup of
\* initialize_settings) has its row in the table t.
\*   initialize_settings: nothing more (lifespan).
\*   get_settings: admin_settings_page renders the template.
\*   update_settings: the body of admin_settings_update.
settings_continue(c, t) ==
    LET row == get_settings(t)
        has_logo == c.logo.filename # ""
        v == validate_image_upload(c.logo, MAX_LOGO_SIZE)
        file_path == [dir |-> "settings", n |-> next_file_id]
        sv == save_uploaded_file(files, [c.logo EXCEPT !.pos = v.pos], file_path, c.fail)
    IN  CASE c.op = "initialize_settings" ->
               /\ settings' = t
               /\ Respond("lifespan", "-", 200, "initialized", "startup")
               /\ UNCHANGED <<session, fileVars>>
          [] c.op = "get_settings" ->
               /\ settings' = t
               /\ session' = generate_csrf_token(session, c.sess, c.token)
               /\ Respond("admin_settings_page", c.sess, 200, "page", "handler")
               /\ UNCHANGED fileVars
          [] OTHER ->
               IF has_logo /\ ~v.ok
               THEN /\ settings' = t
                    /\ Respond("admin_settings_update", c.sess, 303, v.detail, "handler")
                    /\ UNCHANGED <<session, fileVars>>
               ELSE IF has_logo /\ sv.raised # "none"
               THEN /\ settings' = t
                    /\ files' = sv.files
                    /\ Respond("admin_settings_update", c.sess, 303, "save_failed", "handler")
                    /\ UNCHANGED <<session, next_file_id>>
               ELSE /\ settings' = update_settings(t,
                          [company_name |-> c.company_name,
                           logo_path |-> IF has_logo THEN file_path ELSE row.logo_path,
                           phone_primary |-> None])
                    /\ files' = IF has_logo THEN sv.files ELSE files
                    /\ next_file_id' = IF has_logo THEN next_file_id + 1 ELSE next_file_id
                    /\ Respond("admin_settings_update", c.sess, 303, "success=updated",
                               "handler")
                    /\ UNCHANGED session

\* The first step of a call by worker w: with the row in the table the call
\* runs to its end, without it the worker goes on to insert the row.
settings_begin(w, c) ==
    IF get_settings(settings) # NoSettings
    THEN /\ settings_continue(c, settings)
         /\ UNCHANGED pending
    ELSE /\ pending' = [pending EXCEPT ![w] = c]
         /\ UNCHANGED <<session, settings, fileVars, last>>

\* The second step: the insert of the row the worker found missing.  An
\* IntegrityError ends the call: lifespan logs it, admin_settings_update
\* redirects with the error, admin_settings_page answers 500.
settings_create(w) ==
    LET c == pending[w]
        r == settings_insert(IF c.op = "initialize_settings" THEN DefaultSettings
                             ELSE CreatedSettings)
    IN  /\ c.pc = "insert"
        /\ pending' = [pending EXCEPT ![w] = Idle]
        /\ IF r.status = 200 THEN settings_continue(c, r.settings)
           ELSE /\ Respond(IF c.op = "initialize_settings" THEN "lifespan"
                           ELSE IF c.op = "get_settings" THEN "admin_settings_page"
                           ELSE "admin_settings_update",
                           c.sess,
                           IF c.op = "initialize_settings" THEN 200
                           ELSE IF c.op = "get_settings" THEN 500 ELSE 303,
                           "IntegrityError", "handler")
                /\ UNCHANGED <<session, settings, fileVars>>
        /\ UNCHANGED <<userVars, catalogVars, newsVars>>

\* main.py lifespan: SiteSettingsService.initialize_settings at start-up.
lifespan(w) ==
    /\ pending[w].pc = "idle"
    /\ settings_begin(w, Call("initialize_settings", "-", None, None, NoUpload, "none"))
    /\ UNCHANGED <<userVars, catalogVars, newsVars>>

admin_settings_page(s, w, t) ==
    LET g == Gate(s, "GET", "/admin/settings/",
                  [header |-> None, ctype |-> "text/plain", form |-> None],
                  "superuser", FALSE)
    IN  /\ pending[w].pc = "idle"
        /\ IF g.status # 200
           THEN Reject("admin_settings_page", s, g) /\ UNCHANGED pending
           ELSE /\ settings_begin(w, Call("get_settings", s, t, None, NoUpload, "none"))
                /\ UNCHANGED <<userVars, catalogVars, newsVars>>

admin_settings_update(s, w, tok, company_name, logo, fail) ==
    LET g == Gate(s, "POST", "/admin/settings/", tok, "superuser", TRUE)
        sent == IF tok.ctype = "multipart/form-data" THEN logo ELSE NoUpload
    IN  /\ pending[w].pc = "idle"
        /\ next_file_id <= MaxFiles
        /\ IF g.status # 200
           THEN Reject("admin_settings_update", s, g) /\ UNCHANGED pending
           ELSE /\ settings_begin(w, Call("update_settings", s, None, company_name, sent, fail))
                /\ UNCHANGED <<userVars, catalogVars, newsVars>>

(***************************************************************************)
(* Initial states.  The application starts (main.py lifespan) on a         *)
(* database that holds the bootstrap administrator, row 1, and possibly    *)
(* an account created earlier, row 2, whose flags an operator may have     *)
(* changed; a browser may still hold the session cookie of an earlier run. *)
(***************************************************************************)
AdminRow == [id |-> 1, email |-> "admin@x.com", username |-> "admin",
             hashed_password |-> get_password_hash("password1"),
             full_name |-> "n1", is_active |-> TRUE, is_superuser |-> TRUE]

EarlierRow(active, super) ==
    [id |-> 2, email |-> "a@x.com", username |-> "a",
     hashed_password |-> get_password_hash("password1"),
     full_name |-> "n1", is_active |-> active, is_superuser |-> super]

InitLast == [route |-> "startup", sess |-> "-", status |-> 0, result |-> "none",
             stage |-> "none"]

InitUsers ==
    /\ \E active, super \in BOOLEAN : users = {AdminRow, EarlierRow(active, super)}
    /\ next_user_id = 3

InitCatalogEmpty ==
    /\ cities = {}
    /\ next_city_id = 1
    /\ projects = {}
    /\ next_project_id = 1

\* No news, no uploaded file on disk, the settings row of the start-up, and
\* no request inside get_or_create_settings.
InitContentEmpty ==
    /\ news = {}
    /\ next_news_id = 1
    /\ files = {}
    /\ next_file_id = 1
    /\ settings = {DefaultSettings}
    /\ pending = [w \in Workers |-> Idle]

\* What a browser that read the page sends: the token in the form, or none.
FormTok(t) == [header |-> None, ctype |-> "application/x-www-form-urlencoded", form |-> t]

BrowserToks == {FormTok("t1"), FormTok(None)}

(***************************************************************************)
(* SpecIdentity: one browser against a fixed users table.  Its cookie may  *)
(* name no user, a user of the table, or a user deleted since (id 3).      *)
(***************************************************************************)
InitIdentity ==
    /\ InitUsers
    /\ \E uid \in 0..MaxUsers, t \in {None, "t1"} :
          session = [s \in Sessions |->
                       IF s = "A" THEN [user_id |-> uid, csrf_token |-> t]
                       ELSE EmptySession]
    /\ InitCatalogEmpty
    /\ InitContentEmpty
    /\ last = InitLast

NextIdentity ==
    \/ \E tok \in BrowserToks, e \in {"admin@x.com", "a@x.com"}, p \in Passwords,
          lim \in BOOLEAN : login("A", tok, e, p, lim)
    \/ \E tok \in BrowserToks, e \in {"admin@x.com", "a@x.com"}, p \in Passwords,
          lim \in BOOLEAN : admin_login("A", tok, e, p, lim)
    \/ \E tok \in BrowserToks : logout("A", tok)
    \/ \E tok \in BrowserToks : admin_logout("A", tok)
    \/ get_me("A")
    \/ admin_login_page("A", "t1")
    \/ index("A", "t1")
    \/ current_user_optional("A")
    \/ \E page \in AdminPages : admin_page("A", page, "t1")

SpecIdentity == InitIdentity /\ [][NextIdentity]_vars

(***************************************************************************)
(* SpecAdmin: two browsers in the back office.  A holds the session of the *)
(* bootstrap administrator, B the session of account 2, which may or may   *)
(* not be a superuser and may be demoted, deactivated or deleted by A      *)
(* while B's session lives on.                                             *)
(***************************************************************************)
InitAdmin ==
    /\ InitUsers
    /\ session = [s \in Sessions |->
                    [user_id |-> IF s = "A" THEN 1 ELSE 2, csrf_token |-> "t1"]]
    /\ InitCatalogEmpty
    /\ InitContentEmpty
    /\ last = InitLast

NextAdmin ==
    \E s \in Sessions :
        \/ \E e \in {"admin@x.com", "a@x.com"} :
              admin_login(s, FormTok("t1"), e, "password1", FALSE)
        \/ admin_logout(s, FormTok("t1"))
        \/ admin_login_page(s, "t1")
        \/ \E page \in AdminPages : admin_page(s, page, "t1")
        \/ \E id \in 1..MaxUsers : admin_user_edit_form(s, id, "t1")
        \/ admin_user_add(s, FormTok("t1"), "b@x.com", "b", "n1", "password1", FALSE)
        \/ \E id \in 1..2, su \in BOOLEAN :
              admin_user_edit(s, FormTok("t1"), id, "n1", get_user_by_id(id).email, su)
        \/ \E id \in 1..MaxUsers : admin_user_delete(s, FormTok("t1"), id)
        \/ admin_city_add(s, FormTok("t1"), "Almaty", "", TRUE, 0)
        \/ admin_city_edit(s, FormTok("t1"), 1, "Almaty", "", TRUE, 0)
        \/ admin_city_delete(s, FormTok("t1"), 1)
        \/ admin_project_add(s, FormTok("t1"), "Almaty", "", None, 1, "current", FALSE, <<>>, "none")
        \/ admin_project_edit(s, FormTok("t1"), 1, "Almaty", "", None, 1, "current", FALSE, {}, <<>>, "none")
        \/ admin_project_delete(s, FormTok("t1"), 1)
        \/ admin_project_toggle_publish(s, FormTok("t1"), 1)

SpecAdmin == InitAdmin /\ [][NextAdmin]_vars

(***************************************************************************)
(* SpecCsrf: one browser sending every shape of CSRF material: any header, *)
(* any content type, any form field, with any method.                      *)
(***************************************************************************)
AllToks == [header : Submitted, ctype : ContentTypes, form : Submitted]

Methods == {"GET", "HEAD", "POST", "DELETE"}

Paths == {"/static/app.css", "/health", "/healthz", "/stat"}

InitCsrf ==
    /\ users = {AdminRow, EarlierRow(TRUE, FALSE)}
    /\ next_user_id = 3
    /\ \E uid \in {0, 1}, t \in {None} \cup Tokens :
          session = [s \in Sessions |->
                       IF s = "A" THEN [user_id |-> uid, csrf_token |-> t]
                       ELSE EmptySession]
    /\ InitCatalogEmpty
    /\ InitContentEmpty
    /\ last = InitLast

NextCsrf ==
    \/ \E t \in Tokens : index("A", t)
    \/ \E tok \in AllToks : login("A", tok, "admin@x.com", "password1", FALSE)
    \/ \E tok \in AllToks : logout("A", tok)
    \/ \E tok \in AllToks : admin_logout("A", tok)
    \/ \E tok \in AllToks : register_post("A", tok, "b@x.com", "b", "password1", "n1", FALSE)
    \/ \E tok \in AllToks : admin_user_delete("A", tok, 2)
    \/ \E tok \in AllToks : admin_city_add("A", tok, "Almaty", "", TRUE, 0)
    \/ \E tok \in AllToks : admin_city_delete("A", tok, 1)
    \/ \E tok \in AllToks, m \in Methods, path \in Paths : unrouted("A", m, path, tok)

SpecCsrf == InitCsrf /\ [][NextCsrf]_vars

(***************************************************************************)
(* SpecUsers: registrations, admin additions, admin edits and deletions    *)
(* and service-level updates with every email, username and password.      *)
(***************************************************************************)
InitUsersSpec ==
    /\ \E super \in BOOLEAN : users = {AdminRow, EarlierRow(TRUE, super)}
    /\ next_user_id = 3
    /\ \E uid \in {1, 2} :
          session = [s \in Sessions |->
                       IF s = "A" THEN [user_id |-> uid, csrf_token |-> "t1"]
                       ELSE EmptySession]
    /\ InitCatalogEmpty
    /\ InitContentEmpty
    /\ last = InitLast

UserUpdates == [email : Emails] \cup [username : Usernames]

NextUsers ==
    \/ \E e \in Emails, u \in Usernames, p \in Passwords :
          register_post("A", FormTok("t1"), e, u, p, "n1", FALSE)
    \/ \E e \in Emails, u \in Usernames, p \in Passwords, su \in BOOLEAN :
          admin_user_add("A", FormTok("t1"), e, u, "n1", p, su)
    \/ \E id \in 1..MaxUsers, e \in Emails, su \in BOOLEAN :
          admin_user_edit("A", FormTok("t1"), id, "n1", e, su)
    \/ \E id \in 1..MaxUsers : admin_user_delete("A", FormTok("t1"), id)
    \/ \E id \in 1..MaxUsers, data \in UserUpdates : user_update(id, data)

SpecUsers == InitUsersSpec /\ [][NextUsers]_vars

(***************************************************************************)
(* SpecCatalog: the administrator's browser working on cities and          *)
(* projects, with city ids that exist, that do not, and 0.                 *)
(***************************************************************************)
InitCatalog ==
    /\ users = {AdminRow}
    /\ next_user_id = 2
    /\ session = [s \in Sessions |->
                    IF s = "A" THEN [user_id |-> 1, csrf_token |-> "t1"]
                    ELSE EmptySession]
    /\ InitCatalogEmpty
    /\ InitContentEmpty
    /\ last = InitLast

CityIds == 0..(MaxCities + 1)

NextCatalog ==
    \/ \E name \in {"Almaty", "Astana"} : admin_city_add("A", FormTok("t1"), name, "", TRUE, 0)
    \/ \E id \in CityIds, name \in {"Almaty", "Astana"} :
          admin_city_edit("A", FormTok("t1"), id, name, "", TRUE, 0)
    \/ \E id \in CityIds : admin_city_delete("A", FormTok("t1"), id)
    \/ \E title \in Titles, c \in CityIds, pub \in BOOLEAN :
          admin_project_add("A", FormTok("t1"), title, "", None, c, "current", pub, <<>>, "none")
    \/ \E id \in 1..MaxProjects, title \in Titles, c \in CityIds, pub \in BOOLEAN :
          admin_project_edit("A", FormTok("t1"), id, title, "", None, c, "current", pub, {}, <<>>, "none")
    \/ \E id \in 1..MaxProjects : admin_project_delete("A", FormTok("t1"), id)
    \/ \E id \in 1..MaxProjects : admin_project_toggle_publish("A", FormTok("t1"), id)

SpecCatalog == InitCatalog /\ [][NextCatalog]_vars

(***************************************************************************)
(* SpecSlugs: the administrator adds and edits cities, projects and news   *)
(* with typed and with blank slugs.                                        *)
(***************************************************************************)
Slugs == {"", "almaty"}

Names == {"Almaty", "Astana"}

NextSlugs ==
    \/ \E name \in Names, slug \in Slugs :
          admin_city_add("A", FormTok("t1"), name, slug, TRUE, 0)
    \/ \E id \in 1..MaxCities, slug \in Slugs :
          admin_city_edit("A", FormTok("t1"), id, "Astana", slug, TRUE, 0)
    \/ \E title \in Names, slug \in Slugs :
          admin_project_add("A", FormTok("t1"), title, slug, None, 1, "current", FALSE,
                            <<>>, "none")
    \/ \E id \in 1..MaxProjects, slug \in Slugs :
          admin_project_edit("A", FormTok("t1"), id, "Astana", slug, None, 1, "current", FALSE,
                             {}, <<>>, "none")
    \/ \E title \in Names, slug \in Slugs :
          admin_news_add("A", UploadTok("t1"), title, slug, FALSE, NoUpload, "none")
    \/ \E id \in 1..MaxNews, slug \in Slugs :
          admin_news_edit("A", UploadTok("t1"), id, "Astana", slug, FALSE, NoUpload, "none")

SpecSlugs == InitCatalog /\ [][NextSlugs]_vars

(***************************************************************************)
(* SpecUpload: the administrator uploads images for news, projects and the *)
(* logo; a write to disk may fail.                                         *)
(***************************************************************************)
Png(size) == [filename |-> "a.png", content_type |-> "image/png", kind |-> "png",
              size |-> size, pos |-> 0]

\* A part with an empty filename that carries bytes all the same.
Unnamed == [filename |-> "", content_type |-> "text/html", kind |-> "text",
            size |-> 64, pos |-> 0]

SampleUploads ==
    {NoUpload, Unnamed,
     Png(64), Png(MAX_LOGO_SIZE), Png(MAX_LOGO_SIZE + 1), Png(MAX_IMAGE_SIZE),
     Png(MAX_IMAGE_SIZE + 1),
     [filename |-> "a.png", content_type |-> "image/png", kind |-> "empty", size |-> 0,
      pos |-> 0],
     [filename |-> "a.png", content_type |-> "image/gif", kind |-> "jpeg", size |-> 64,
      pos |-> 0],
     [filename |-> "a.svg", content_type |-> "image/svg+xml", kind |-> "xml", size |-> 64,
      pos |-> 0],
     [filename |-> "a.png", content_type |-> "image/png", kind |-> "text", size |-> 64,
      pos |-> 0],
     [filename |-> "a.exe", content_type |-> "image/png", kind |-> "png", size |-> 64,
      pos |-> 0]}

\* An upload together with the fate of its write: every sample is written
\* without failure, the plain image also with each failure.
UploadCases ==
    {<<u, "none">> : u \in SampleUploads} \cup {<<Png(64), f>> : f \in SaveFailures}

NextUpload ==
    \/ \E c \in UploadCases :
          admin_news_add("A", UploadTok("t1"), "Almaty", "", FALSE, c[1], c[2])
    \/ \E c \in UploadCases :
          admin_news_edit("A", UploadTok("t1"), 1, "Almaty", "", FALSE, c[1], c[2])
    \/ admin_news_delete("A", UploadTok("t1"), 1)
    \/ \E c \in UploadCases :
          admin_settings_update("A", "w1", UploadTok("t1"), "SC", c[1], c[2])
    \/ admin_city_add("A", FormTok("t1"), "Almaty", "", TRUE, 0)
    \/ \E size \in {MAX_IMAGE_SIZE, MAX_IMAGE_SIZE + 1} :
          admin_project_add("A", UploadTok("t1"), "Almaty", "", None, 1, "current", FALSE,
                            <<Png(size)>>, "none")

SpecUpload == InitCatalog /\ [][NextUpload]_vars

(***************************************************************************)
(* SpecImages: the administrator sends requests with several image parts,  *)
(* named and unnamed, valid and not.                                       *)
(***************************************************************************)
NotAnImage == [filename |-> "a.png", content_type |-> "image/png", kind |-> "text",
               size |-> 64, pos |-> 0]

ImageLists ==
    {<<>>, <<Png(64)>>, <<NotAnImage>>, <<Unnamed>>,
     <<Png(64), Png(64)>>, <<Png(64), Unnamed>>, <<Png(64), NotAnImage>>,
     <<Unnamed, Png(64)>>}

NextImages ==
    \/ admin_city_add("A", FormTok("t1"), "Almaty", "", TRUE, 0)
    \/ \E images \in ImageLists, fail \in {"none", "write"} :
          admin_project_add("A", UploadTok("t1"), "Almaty", "", None, 1, "current", FALSE,
                            images, fail)
    \/ \E keep \in SUBSET {[dir |-> "projects", n |-> 1]}, images \in ImageLists :
          admin_project_edit("A", UploadTok("t1"), 1, "Almaty", "", None, 1, "current", FALSE,
                             keep, images, "none")
    \/ \E u \in {NoUpload, Png(64), NotAnImage, Unnamed} :
          admin_news_add("A", UploadTok("t1"), "Almaty", "", FALSE, u, "none")
    \/ \E u \in {NoUpload, Png(64), NotAnImage, Unnamed} :
          admin_settings_update("A", "w1", UploadTok("t1"), "SC", u, "none")

SpecImages == InitCatalog /\ [][NextImages]_vars

(***************************************************************************)
(* SpecUserAdd: the administrator adds users to a table that holds the     *)
(* bootstrap administrator alone.                                          *)
(***************************************************************************)
NextUserAdd ==
    \/ \E e \in Emails, u \in Usernames, p \in Passwords, fn \in FullNames, su \in BOOLEAN :
          admin_user_add("A", FormTok("t1"), e, u, fn, p, su)
    \/ \E id \in 1..MaxUsers : admin_user_delete("A", FormTok("t1"), id)

SpecUserAdd == InitCatalog /\ [][NextUserAdd]_vars

(***************************************************************************)
(* SpecSettings: start-up and the settings pages, run by two workers, on   *)
(* a database with or without the settings row.                            *)
(***************************************************************************)
InitSettings ==
    /\ users = {AdminRow}
    /\ next_user_id = 2
    /\ session = [s \in Sessions |->
                    IF s = "A" THEN [user_id |-> 1, csrf_token |-> "t1"]
                    ELSE EmptySession]
    /\ InitCatalogEmpty
    /\ news = {}
    /\ next_news_id = 1
    /\ files = {}
    /\ next_file_id = 1
    /\ settings \in {{}, {DefaultSettings}}
    /\ pending = [w \in Workers |-> Idle]
    /\ last = InitLast

NextSettings ==
    \E w \in Workers :
        \/ lifespan(w)
        \/ admin_settings_page("A", w, "t1")
        \/ \E name \in CompanyNames, logo \in {NoUpload, Png(64), Png(MAX_LOGO_SIZE + 1)} :
              admin_settings_update("A", w, UploadTok("t1"), name, logo, "none")
        \/ settings_create(w)

SpecSettings == InitSettings /\ [][NextSettings]_vars

(***************************************************************************)
(* Properties.                                                             *)
(***************************************************************************)
\* The user a session's user id resolves to, NoUser when it resolves to none.
SessionUser(s) == get_user_by_id(session[s].user_id)

ActiveSuperuser(s) ==
    /\ session[s].user_id # 0
    /\ SessionUser(s) # NoUser
    /\ SessionUser(s).is_active
    /\ SessionUser(s).is_superuser

ActiveNonSuperuser(s) ==
    /\ session[s].user_id # 0
    /\ SessionUser(s) # NoUser
    /\ SessionUser(s).is_active
    /\ ~SessionUser(s).is_superuser

\* C1: a request to a route of the back office (every /admin route but the
\* login page, login and logout) enters its handler body only if, in the
\* state the request finds, the session's user id resolves to an existing,
\* active superuser; from any other session it changes no row of any table;
\* and a session that resolves to an active user without the flag is
\* answered 403 by the identity dependency.
C1_AdminGate ==
    [][\A s \in Sessions :
          (last'.sess = s /\ Area(last'.route) = "admin") =>
             /\ last'.stage = "handler" => ActiveSuperuser(s)
             /\ ~ActiveSuperuser(s) => UNCHANGED <<userVars, catalogVars, contentVars>>
             /\ (ActiveNonSuperuser(s) /\ last'.stage # "csrf")
                  => (last'.status = 403 /\ last'.stage = "auth")]_vars

\* C1 witness: a back-office request from a session that still names an
\* active user without the flag has been answered 403 by the dependency.
C1_Witness ==
    /\ last.route = "admin"
    /\ last.stage = "auth"
    /\ last.status = 403
    /\ ActiveNonSuperuser(last.sess)

\* The token a request submits, as C2 reads it: the x-csrf-token header,
\* or, when none is sent, the csrf_token field of a urlencoded body.
SentToken(tok) ==
    IF tok.header \notin {None, ""} THEN tok.header
    ELSE IF tok.ctype = "application/x-www-form-urlencoded" THEN tok.form
    ELSE None

TokenAccepted(s, tok) ==
    /\ session[s].csrf_token \notin {None, ""}
    /\ SentToken(tok) = session[s].csrf_token

Unsafe(method, path) ==
    /\ method \notin {"GET", "HEAD", "OPTIONS", "TRACE"}
    /\ ~StartsWith(path, "/static")
    /\ ~StartsWith(path, "/health")

\* C2: a request with an unsafe method to a path outside /static and /health
\* gets past the CSRF middleware only if the session holds a token and the
\* submitted token equals it; every request the middleware stops is answered
\* 403 and changes neither the session nor any table.
C2_CsrfGate ==
    [][/\ last'.stage = "csrf"
            => (last'.status = 403 /\ UNCHANGED <<session, userVars, catalogVars, contentVars>>)
       /\ \A s \in Sessions, method \in Methods, path \in Paths \cup {"/auth/login"},
             tok \in AllToks :
             (Unsafe(method, path) /\ ~TokenAccepted(s, tok))
                => Gate(s, method, path, tok, "none", FALSE).stage = "csrf"]_vars

SharesNothing(us) ==
    \A u, v \in us : u # v => (u.email # v.email /\ u.username # v.username)

Used(email, username) ==
    \E u \in users : u.email = email \/ u.username = username

CreationRoutes == {"register_post", "admin_user_add"}

\* C3: no two user rows share an email or a username, before and after every
\* registration, admin addition and edit; create_user answers a reused email
\* or username with 409 and leaves the table alone; a registration or admin
\* addition that changes the table adds exactly one row, whose email and
\* username no row held; one answered as a conflict changes no row.
C3_UniqueUsers ==
    [][/\ SharesNothing(users) /\ SharesNothing(users')
       /\ \A e \in Emails, u \in Usernames, p \in Passwords :
             Used(e, u) => /\ create_user(e, u, p, "n1").status = 409
                           /\ create_user(e, u, p, "n1").users = users
       /\ (last'.route \in CreationRoutes /\ users' # users)
             => \E row \in users' : /\ users' = users \cup {row}
                                    /\ ~Used(row.email, row.username)
       /\ (last'.route \in CreationRoutes
             /\ (last'.status = 409 \/ last'.result = "error=already_exists"))
             => Cardinality(users') = Cardinality(users) /\ users' = users]_vars

\* C3 witness: an attempt that reuses an email or a username was answered
\* as a conflict while the table held more than one row.
C3_Witness ==
    /\ last.route \in CreationRoutes
    /\ last.status = 409 \/ last.result = "error=already_exists"
    /\ Cardinality(users) >= 2
    /\ SharesNothing(users)

\* C4: create_user rejects every password shorter than 8 characters and
\* leaves the table alone, whatever the email and username; a registration
\* or admin addition that changes the table stores the hash of a password of
\* at least 8 characters, and one answered as a bad password changes no row.
C4_ShortPassword ==
    [][/\ \A e \in Emails, u \in Usernames, p \in Passwords :
             Len(p) < 8 => /\ create_user(e, u, p, "n1").status \in {400, 409}
                           /\ create_user(e, u, p, "n1").users = users
       /\ (last'.route \in CreationRoutes /\ users' # users)
             => \E row \in users' \ users, p \in Passwords :
                   Len(p) >= 8 /\ verify_password(p, row.hashed_password)
       /\ (last'.route \in CreationRoutes
             /\ (last'.status = 400 \/ last'.result = "error=invalid_password"))
             => users' = users]_vars

\* C4 witness: a registration or admin addition was refused for its password.
C4_Witness ==
    /\ last.route \in CreationRoutes
    /\ last.status = 400 \/ last.result = "error=invalid_password"

\* C8: a delete request whose id is the requester's own is answered
\* cannot_delete_yourself, and an edit request whose id is the requester's
\* own and whose is_superuser is false is answered
\* cannot_remove_own_superuser; neither changes a user row.
C8_NoSelfRemoval ==
    [][/\ (last'.route = "admin_user_delete" /\ last'.stage = "handler")
             => \A tok \in BrowserToks :
                   admin_user_delete(last'.sess, tok, session[last'.sess].user_id)
                      => /\ last'.result = "error=cannot_delete_yourself"
                         /\ users' = users
       /\ (last'.route = "admin_user_edit" /\ last'.stage = "handler")
             => \A tok \in BrowserToks, e \in Emails, fn \in FullNames :
                   admin_user_edit(last'.sess, tok, session[last'.sess].user_id, fn, e, FALSE)
                      => /\ last'.result = "error=cannot_remove_own_superuser"
                         /\ users' = users]_vars

\* C8 witness: an administrator's attempt to clear their own flag was refused.
C8_Witness ==
    /\ last.route = "admin_user_edit"
    /\ last.result = "error=cannot_remove_own_superuser"
    /\ ActiveSuperuser(last.sess)

\* A request to a route that declares get_current_user or require_superuser
\* and that the CSRF middleware let through.
IdentityChecked(s) ==
    /\ last'.sess = s
    /\ Area(last'.route) \in {"admin", "user"}
    /\ last'.stage # "csrf"

MissingUser(s) == session[s].user_id # 0 /\ SessionUser(s) = NoUser

InactiveUser(s) ==
    /\ session[s].user_id # 0
    /\ SessionUser(s) # NoUser
    /\ ~SessionUser(s).is_active

\* C5 (as amended): get_current_user answers 401 when the session holds no
\* user id, and 404 when the session's user id maps to no user record.
C5_Unauthenticated ==
    [][\A s \in Sessions :
          IdentityChecked(s) =>
             /\ session[s].user_id = 0
                  => (last'.stage = "auth" /\ last'.status = 401)
             /\ MissingUser(s)
                  => (last'.stage = "auth" /\ last'.status = 404)]_vars

\* C5 as stated: get_current_user answers 401 both when the session holds no
\* user id and when the session's user id maps to no user record.
C5_AsStated ==
    [][\A s \in Sessions :
          (IdentityChecked(s) /\ (session[s].user_id = 0 \/ MissingUser(s)))
             => (last'.stage = "auth" /\ last'.status = 401)]_vars

\* C5 witness: the dependency answered a session whose user is gone.
C5_Witness ==
    /\ Area(last.route) \in {"admin", "user"}
    /\ last.stage = "auth"
    /\ last.status = 404

\* C6: when the session's user is inactive, get_current_user clears the
\* whole session and answers 403; when the user is inactive or gone, the
\* optional resolvers clear the session and resolve no user; and
\* get_current_user clears the whole session when the user is gone.
C6_InactiveCleared ==
    [][\A s \in Sessions :
          /\ (IdentityChecked(s) /\ InactiveUser(s))
               => /\ last'.stage = "auth"
                  /\ last'.status = 403
                  /\ session'[s] = EmptySession
          /\ (IdentityChecked(s) /\ MissingUser(s)) => session'[s] = EmptySession
          /\ (last'.sess = s /\ last'.route \in {"index", "current_user_optional"}
                /\ (InactiveUser(s) \/ MissingUser(s)))
               => /\ set_current_user_optional(s).user = 0
                  /\ get_current_user_optional(s).user = 0
                  /\ session'[s].user_id = 0
                  /\ last'.route = "current_user_optional" => session'[s] = EmptySession]_vars

\* C6 witness: a route that only needs a signed-in user refused an inactive
\* one, and the session is empty afterwards.
C6_Witness ==
    /\ last.route = "user"
    /\ last.stage = "auth"
    /\ last.status = 403
    /\ session[last.sess] = EmptySession

\* C7: a logout that reaches its handler leaves the session without a user
\* id; a session without a user id gets one only by a successful login in
\* that session; and until then no request of that session enters a handler
\* that requires authentication: the identity dependency, when the request
\* reaches it, answers 401.
C7_LoggedOut ==
    [][\A s \in Sessions :
          /\ (last'.sess = s /\ last'.route \in {"logout", "admin_logout"}
                /\ last'.stage = "handler")
               => session'[s].user_id = 0
          /\ (session[s].user_id = 0 /\ session'[s].user_id # 0)
               => /\ last'.sess = s
                  /\ last'.route \in {"login", "admin_login"}
                  /\ last'.result = "success"
          /\ (last'.sess = s /\ session[s].user_id = 0
                /\ Area(last'.route) \in {"admin", "user"})
               => /\ last'.stage \in {"csrf", "auth"}
                  /\ last'.stage = "auth" => last'.status = 401]_vars

\* C7 witness: a signed-in session logged out and holds no user id.
C7_Witness ==
    /\ last.route = "logout"
    /\ last.stage = "handler"
    /\ session[last.sess].user_id = 0

References(city_id) == {p \in projects : p.city_id = city_id}

\* C9: a city delete that reaches the service and names an existing city is
\* rejected (city_has_projects) and leaves the cities as they are while a
\* project, published or not, has that city_id; when no project has it, the
\* delete removes the city and reports success.
C9_CityDelete ==
    [][(last'.route = "admin_city_delete" /\ last'.stage = "handler") =>
          \A id \in CityIds :
             (/\ get_city_by_id(id) # NoCity
              /\ \E tok \in BrowserToks : admin_city_delete(last'.sess, tok, id))
               => IF References(id) # {}
                  THEN /\ cities' = cities
                       /\ last'.result = "city_has_projects"
                  ELSE /\ cities' = cities \ {get_city_by_id(id)}
                       /\ last'.result = "success=deleted"]_vars

\* C9 witness: a city delete was rejected although every project is
\* unpublished.
C9_Witness ==
    /\ last.route = "admin_city_delete"
    /\ last.result = "city_has_projects"
    /\ projects # {}
    /\ \A p \in projects : ~p.is_published

\* C10: every project's city_id is the id of a stored city; a project add
\* with a city id that is not stored, and a project edit that names a city
\* id other than the project's own that is not stored, answer city_not_found
\* and leave the projects as they are; and a city that a project refers to
\* stays stored.
C10_ProjectCityExists ==
    [][/\ \A p \in projects' : \E c \in cities' : c.id = p.city_id
       /\ \A c \in cities : References(c.id) # {} => \E d \in cities' : d.id = c.id
       /\ (last'.route = "admin_project_add" /\ last'.stage = "handler") =>
             \A title \in Titles, c \in CityIds, pub \in BOOLEAN :
                (/\ get_city_by_id(c) = NoCity
                 /\ get_project_by_slug(generate_slug(title)) = NoProject
                 /\ \E tok \in BrowserToks :
                       admin_project_add(last'.sess, tok, title, "", None, c, "current", pub, <<>>, "none"))
                  => /\ projects' = projects
                     /\ last'.result = "city_not_found"
       /\ (last'.route = "admin_project_edit" /\ last'.stage = "handler") =>
             \A id \in 1..MaxProjects, title \in Titles, c \in CityIds, pub \in BOOLEAN :
                (/\ get_project_by_id(id) # NoProject
                 /\ c # get_project_by_id(id).city_id
                 /\ get_city_by_id(c) = NoCity
                 /\ get_project_by_slug(generate_slug(title)) \in {NoProject, get_project_by_id(id)}
                 /\ \E tok \in BrowserToks :
                       admin_project_edit(last'.sess, tok, id, title, "", None, c,
                                          "current", pub, {}, <<>>, "none"))
                  => /\ projects' = projects
                     /\ last'.result = "city_not_found"]_vars


C12_ContentChecked ==
    \A u \in {f.upload : f \in files} :
        ( /\ suffix_lower(u.filename) \in ALLOWED_IMAGE_EXTENSIONS
          /\ u.content_type \in ALLOWED_IMAGE_MIMES
          /\ u.kind \notin {"jpeg", "png", "gif", "webp", "svg"} )
        => ~validate_image_upload(u, MAX_IMAGE_SIZE).ok

\* C13: validate_image_upload accepts a file that is not an SVG only when the
\* family sniffed from its bytes is the family its extension declares and the
\* family its content-type header declares.  Stated of the uploads the
\* requests of a run have sent and stored.
C13_FamilyAgrees ==
    \A u \in {f.upload : f \in files} :
        LET ext == suffix_lower(u.filename)
            by_extension == CASE ext = ".png" -> "png"
                              [] ext \in {".jpg", ".jpeg"} -> "jpeg"
                              [] ext = ".gif" -> "gif"
                              [] ext = ".webp" -> "webp"
                              [] OTHER -> "other"
            by_header == CASE u.content_type = "image/png" -> "png"
                           [] u.content_type = "image/jpeg" -> "jpeg"
                           [] u.content_type = "image/gif" -> "gif"
                           [] u.content_type = "image/webp" -> "webp"
                           [] OTHER -> "other"
        IN  (ext # ".svg" /\ validate_image_upload(u, MAX_IMAGE_SIZE).ok)
            => (imghdr_what(u.kind) = by_extension /\ imghdr_what(u.kind) = by_header)

\* C14: every image path that an admin upload request stores in a news
\* item's image_path, in a project's image list or in the settings'
\* logo_path is the path of a file that passed validate_image_upload in that
\* request (so the file at the path is an upload that validates); and a
\* request in which a file fails validation writes no file.
C14_StoredValidated ==
    [][ /\ \A n \in news', f \in files' :
              f.path = n.image_path => validate_image_upload(f.upload, MAX_IMAGE_SIZE).ok
        /\ \A p \in projects', f \in files' :
              (\E i \in DOMAIN p.images : p.images[i] = f.path)
                 => validate_image_upload(f.upload, MAX_IMAGE_SIZE).ok
        /\ \A r \in settings', f \in files' :
              f.path = r.logo_path => validate_image_upload(f.upload, MAX_LOGO_SIZE).ok
        /\ ( /\ last'.stage = "handler"
             /\ last'.result \in {"required", "bad_extension", "bad_content_type", "empty",
                                  "too_large", "invalid_svg", "not_an_image",
                                  "unsupported_format", "too_many"} )
              => files' \subseteq files
      ]_vars

\* C15: when validate_image_upload returns without error the stream stands
\* at offset 0, so the save_uploaded_file that follows writes exactly the
\* bytes that were validated; when a check fails it raises a
\* FileValidationError, of status 400 and with a reason, and the request
\* writes no file.
C15_ValidationFrame ==
    [][ /\ \A u \in SampleUploads, max_size \in {MAX_IMAGE_SIZE, MAX_LOGO_SIZE} :
              LET v == validate_image_upload(u, max_size)
                  file_path == [dir |-> "news", n |-> next_file_id]
                  sv == save_uploaded_file(files, [u EXCEPT !.pos = v.pos], file_path, "none")
              IN  /\ v.ok => /\ v.pos = 0
                             /\ \E f \in sv.files :
                                   /\ f.path = file_path
                                   /\ f.upload = u
                                   /\ f.written = u.size
                  /\ ~v.ok => (v.status = 400 /\ v.detail \notin {"valid", "", None})
        /\ \A f \in files' : f.written = f.upload.size
        /\ ( /\ last'.stage = "handler"
             /\ last'.result \in {"required", "bad_extension", "bad_content_type", "empty",
                                  "too_large", "invalid_svg", "not_an_image",
                                  "unsupported_format"} )
              => (files' = files /\ last'.status \in {400, 303})
      ]_vars

\* A request was refused for an upload that is no image while the disk holds
\* a file that an earlier request saved in full.
C15_Witness ==
    /\ last.route = "admin_news_add"
    /\ last.status = 400
    /\ last.result = "not_an_image"
    /\ \E f \in files : f.written = f.upload.size /\ f.written > 0

\* C16: when the write fails inside save_uploaded_file, or inside
\* compress_and_save_image, then at the time the error reaches the caller no
\* file exists at the destination path, and the error is a generic
\* exception, not a validation error.
C16_FailedSaveLeavesNothing ==
    [][ /\ \A u \in SampleUploads, fail \in SaveFailures :
              LET file_path == [dir |-> "news", n |-> next_file_id]
                  sv == save_uploaded_file(files, u, file_path, fail)
                  cs == compress_and_save_image(files, u, file_path, fail)
              IN  /\ sv.raised = "Exception"
                  /\ cs.raised = "Exception"
                  /\ \A f \in sv.files \cup cs.files : f.path # file_path
        /\ \A u \in SampleUploads :
              LET file_path == [dir |-> "news", n |-> next_file_id]
                  cs == compress_and_save_image(files, u, file_path, "none")
              IN  cs.raised # "none"
                     => (cs.raised = "Exception" /\ \A f \in cs.files : f.path # file_path)
        /\ (last'.stage = "handler" /\ last'.result = "save_failed")
              => /\ \A f \in files' : f.path.n # next_file_id
                 /\ files' \subseteq files
                 /\ last'.status \in {500, 303}
      ]_vars

\* A write of an uploaded image failed while the disk holds a file saved by
\* an earlier request.
C16_Witness ==
    /\ last.result = "save_failed"
    /\ last.route = "admin_news_edit"
    /\ files # {}

\* C17: validation accepts a file of exactly max_size bytes and rejects a
\* file of max_size + 1 bytes and an empty file; the ceiling is 10 MB for
\* the images of news and projects and 5 MB for the logo of the settings.
C17_SizeCeiling ==
    [][ /\ MAX_IMAGE_SIZE = 10 * 1024 * 1024
        /\ MAX_LOGO_SIZE = 5 * 1024 * 1024
        /\ \A max_size \in {MAX_IMAGE_SIZE, MAX_LOGO_SIZE} :
              /\ validate_image_upload(Png(max_size), max_size).ok
              /\ validate_image_upload(Png(max_size + 1), max_size).detail = "too_large"
              /\ validate_image_upload([Png(0) EXCEPT !.kind = "empty"], max_size).detail
                    = "empty"
        /\ \A f \in files' :
              /\ f.upload.size > 0
              /\ f.upload.size <= IF f.path.dir = "settings" THEN MAX_LOGO_SIZE
                                  ELSE MAX_IMAGE_SIZE
        /\ last'.route = "admin_news_add" =>
              /\ admin_news_add("A", UploadTok("t1"), "Almaty", "", FALSE,
                                Png(MAX_IMAGE_SIZE), "none")
                    => \E f \in files' \ files : f.upload.size = MAX_IMAGE_SIZE
              /\ admin_news_add("A", UploadTok("t1"), "Almaty", "", FALSE,
                                Png(MAX_IMAGE_SIZE + 1), "none")
                    => (last'.result = "too_large" /\ files' = files)
        /\ last'.route = "admin_project_add" =>
              /\ admin_project_add("A", UploadTok("t1"), "Almaty", "", None, 1, "current",
                                   FALSE, <<Png(MAX_IMAGE_SIZE)>>, "none")
                    => \E f \in files' \ files : f.upload.size = MAX_IMAGE_SIZE
              /\ admin_project_add("A", UploadTok("t1"), "Almaty", "", None, 1, "current",
                                   FALSE, <<Png(MAX_IMAGE_SIZE + 1)>>, "none")
                    => (last'.result = "too_large" /\ files' = files)
        /\ last'.route = "admin_settings_update" =>
              /\ admin_settings_update("A", "w1", UploadTok("t1"), "SC",
                                       Png(MAX_LOGO_SIZE), "none")
                    => \E f \in files' \ files : f.upload.size = MAX_LOGO_SIZE
              /\ admin_settings_update("A", "w1", UploadTok("t1"), "SC",
                                       Png(MAX_LOGO_SIZE + 1), "none")
                    => (last'.result = "too_large" /\ files' = files)
      ]_vars

\* The disk holds a logo of exactly 5 MB, and a project image of 10 MB + 1
\* byte has just been refused.
C17_Witness ==
    /\ \E f \in files : f.path.dir = "settings" /\ f.upload.size = MAX_LOGO_SIZE
    /\ last.route = "admin_project_add"
    /\ last.result = "too_large"

(***************************************************************************)
(* Publishing a project                                                    *)
(***************************************************************************)
\* C18: a toggle-publish of an existing project inverts is_published and
\* changes no other field and no other row; a second toggle right after it
\* gives back the table as it was before the first; a toggle of a project
\* that does not exist changes nothing.
C18_ToggleInvolution ==
    [][ (last'.route = "admin_project_toggle_publish" /\ last'.stage = "handler") =>
          \A id \in 1..MaxProjects :
             admin_project_toggle_publish("A", FormTok("t1"), id) =>
                LET project == get_project_by_id(id)
                IN  IF project = NoProject
                    THEN /\ UNCHANGED <<catalogVars, contentVars, userVars>>
                         /\ last'.result = "project_not_found"
                    ELSE /\ projects' = (projects \ {project}) \cup
                                           {[project EXCEPT !.is_published = ~project.is_published]}
                         /\ (get_project_by_id(id).is_published)' = ~project.is_published
                         /\ (toggle_publish(id).status)' = 200
                         /\ (toggle_publish(id).projects)' = projects
                         /\ UNCHANGED <<cities, contentVars, userVars>>
      ]_vars

\* A project that was created unpublished stands published after a toggle.
C18_Witness ==
    /\ last.route = "admin_project_toggle_publish"
    /\ last.result = "success=toggled"
    /\ \E p \in projects : p.is_published
    /\ Cardinality(projects) = 2

(***************************************************************************)
(* Adding a user from the back office                                      *)
(***************************************************************************)
\* C19: POST /admin/users/add by a superuser with an email and a username
\* that no user holds and a password of at least 8 characters creates
\* exactly one user and redirects with success=created; the same POST once
\* more (the email and the username are then taken) creates no user and
\* redirects with error=already_exists.
C19_AddUserOnce ==
    [][ (last'.route = "admin_user_add" /\ last'.stage = "handler") =>
          \A e \in Emails, u \in Usernames, p \in Passwords, fn \in FullNames, su \in BOOLEAN :
             admin_user_add("A", FormTok("t1"), e, u, fn, p, su) =>
                IF get_user_by_email(e) # NoUser \/ get_user_by_username(u) # NoUser
                THEN /\ users' = users
                     /\ last'.status = 303
                     /\ last'.result = "error=already_exists"
                ELSE Len(p) >= 8 =>
                     /\ last'.status = 303
                     /\ last'.result = "success=created"
                     /\ users \subseteq users'
                     /\ Cardinality(users') = Cardinality(users) + 1
                     /\ \E row \in users' \ users :
                           /\ row.email = e
                           /\ row.username = u
                           /\ row.is_superuser = su
                     /\ (create_user(e, u, p, fn).status)' = 409
                     /\ (create_user(e, u, p, fn).users)' = users'
      ]_vars

\* The POST that created a user was sent once more and refused.
C19_Witness ==
    /\ last.route = "admin_user_add"
    /\ last.result = "error=already_exists"
    /\ Cardinality(users) = 2
    /\ \E row \in users : row.email = "a@x.com" /\ row.username = "a"

(***************************************************************************)
(* The settings row                                                        *)
(***************************************************************************)
\* C20: after every step of get_settings, update_settings and
\* initialize_settings, start-up included, the table holds at most one
\* SiteSettings row and its id is 1; a get_settings that returns has the row
\* in the table, created if it was missing, and never adds a second one; an
\* update_settings that returns has written its data to that row.
C20_SingleSettingsRow ==
    [][ /\ Cardinality(settings') <= 1
        /\ \A r \in settings' : r.id = SETTINGS_ID
        /\ settings # {} => (Cardinality(settings') = 1 /\ get_settings(settings').id = 1)
        /\ (last'.route \in {"lifespan", "admin_settings_page"} /\ settings # {})
              => settings' = settings
        /\ (last'.route = "admin_settings_page" /\ last'.status = 200)
              => settings' = {get_settings(settings')} /\ get_settings(settings') # NoSettings
        /\ (last'.route = "lifespan" /\ last'.result = "initialized")
              => settings' = {get_settings(settings')} /\ get_settings(settings') # NoSettings
        /\ (last'.route = "admin_settings_update" /\ last'.result = "success=updated") =>
              /\ settings' = {get_settings(settings')}
              /\ get_settings(settings').id = SETTINGS_ID
              /\ \A w \in Workers :
                    /\ settings_create(w) =>
                          get_settings(settings').company_name = pending[w].company_name
                    /\ \A name \in CompanyNames, logo \in {NoUpload, Png(64)} :
                          admin_settings_update("A", w, UploadTok("t1"), name, logo, "none")
                             => /\ get_settings(settings').company_name = name
                                /\ logo = NoUpload =>
                                      get_settings(settings').logo_path
                                         = get_settings(settings).logo_path
                                /\ logo # NoUpload =>
                                      get_settings(settings').logo_path
                                         = [dir |-> "settings", n |-> next_file_id]
      ]_vars

\* Two calls found the row missing; one inserted it, the insert of the other
\* was refused, and the table holds the one row.
C20_Witness ==
    /\ last.result = "IntegrityError"
    /\ Cardinality(settings) = 1
    /\ get_settings(settings).id = SETTINGS_ID

(***************************************************************************)
(* Partial updates                                                         *)
(***************************************************************************)
\* C21: update_city, update_project, update_news_service,
\* update_user_service and update_settings change only the fields that are
\* set in the update object: in the row they write every field that the
\* object leaves unset holds its stored value, and no other row changes.
C21_UnsetFieldsKept ==
    LET Kept(old, new, set) == \A f \in DOMAIN old \ set : new[f] = old[f]
    IN  /\ \A c \in cities :
              \A u \in {[name |-> "Astana"], [slug |-> "astana"], [is_active |-> FALSE],
                        [sort_order |-> 1], [name |-> "Astana", sort_order |-> 1]} :
                 LET r == update_city(c.id, u)
                 IN  r.status = 200 =>
                        /\ r.projects = projects
                        /\ \E new \in r.cities :
                              /\ r.cities \ {new} = cities \ {c}
                              /\ Kept(c, new, DOMAIN u)
        /\ \A p \in projects :
              \A u \in {[title |-> "Astana"], [slug |-> "astana"], [subtitle |-> "s"],
                        [status |-> "completed"], [is_published |-> ~p.is_published],
                        [images |-> <<[dir |-> "projects", n |-> 1]>>],
                        [title |-> "Astana", is_published |-> TRUE]} :
                 LET r == update_project(p.id, u)
                 IN  r.status = 200 =>
                        /\ r.cities = cities
                        /\ \E new \in r.projects :
                              /\ r.projects \ {new} = projects \ {p}
                              /\ Kept(p, new, DOMAIN u)
        /\ \A n \in news :
              \A u \in {[title |-> "Astana"], [slug |-> "astana"], [is_published |-> TRUE],
                        [image_path |-> [dir |-> "news", n |-> 1]],
                        [title |-> "Astana", slug |-> "astana"]} :
                 LET r == update_news_service(n.id, u)
                 IN  r.status = 200 =>
                        \E new \in r.news :
                           /\ r.news \ {new} = news \ {n}
                           /\ Kept(n, new, DOMAIN u)
        /\ \A x \in users :
              \A u \in {[email |-> "b@x.com"], [username |-> "b"], [full_name |-> "n2"],
                        [password |-> "password2"]} :
                 LET r == update_user_service(x.id, u)
                 IN  r.status = 200 =>
                        \E new \in r.users :
                           /\ r.users \ {new} = users \ {x}
                           /\ Kept(x, new, IF "password" \in DOMAIN u
                                           THEN {"hashed_password"} ELSE DOMAIN u)
        /\ \A row \in settings :
              \A u \in {[company_name |-> "SC"], [phone_primary |-> "+7"],
                        [logo_path |-> [dir |-> "settings", n |-> 1]]} :
                 \E new \in update_settings(settings, u) :
                    /\ update_settings(settings, u) \ {new} = settings \ {row}
                    /\ Kept(row, new, DOMAIN u)

\* Every table holds a row, and an update object that sets the title alone
\* changes the news item and the project it is applied to.
C21_Witness ==
    /\ cities # {} /\ projects # {} /\ news # {} /\ users # {} /\ settings # {}
    /\ last.result = "success=updated"
    /\ \E n \in news : LET r == update_news_service(n.id, [title |-> "Almaty"])
                       IN  r.status = 200 /\ r.news # news
    /\ \E p \in projects : LET r == update_project(p.id, [title |-> "Almaty"])
                           IN  r.status = 200 /\ r.projects # projects

(***************************************************************************)
(* The image list of a project                                             *)
(***************************************************************************)
\* C22: after a successful POST /admin/projects/{id}/edit the stored image
\* list of the project is the stored URLs that appear in keep_images, in
\* their order, followed by the URLs of the files the request saved, in
\* upload order; also when that list is empty.
C22_ImageList ==
    [][ (last'.route = "admin_project_edit" /\ last'.result = "success=updated") =>
          \A keep \in SUBSET {[dir |-> "projects", n |-> 1]}, images \in ImageLists :
             admin_project_edit("A", UploadTok("t1"), 1, "Almaty", "", None, 1, "current",
                                FALSE, keep, images, "none") =>
                LET stored == get_project_by_id(1).images
                    saved == {f.path : f \in files' \ files}
                    uploaded == [i \in 1..Cardinality(saved) |->
                                   [dir |-> "projects", n |-> next_file_id + i - 1]]
                IN  /\ saved = {uploaded[i] : i \in DOMAIN uploaded}
                    /\ (get_project_by_id(1).images)'
                          = SelectSeq(stored, LAMBDA url : url \in keep) \o uploaded
      ]_vars

(***************************************************************************)
(* Logging in                                                              *)
(***************************************************************************)
\* C23: the user id of a session is set only by a login request whose email
\* and password verify against a stored user that is active at that moment;
\* a failed login (401 for a wrong email or password, 403 for an inactive
\* user) leaves the session unchanged; POST /admin/login sets the user id
\* only when that user is a superuser as well.
C23_LoginSetsUser ==
    [][ /\ \A s \in Sessions :
              (session'[s].user_id # session[s].user_id /\ session'[s].user_id # 0) =>
                 /\ last'.route \in {"login", "admin_login"}
                 /\ last'.stage = "handler"
                 /\ last'.result = "success"
                 /\ last'.sess = s
        /\ (last'.route \in {"login", "admin_login"} /\ last'.stage = "handler") =>
              \A tok \in BrowserToks, e \in {"admin@x.com", "a@x.com"}, p \in Passwords :
                 LET user == get_user_by_email(e)
                     verified == user # NoUser /\ verify_password(p, user.hashed_password)
                 IN  /\ login("A", tok, e, p, FALSE) =>
                           IF verified /\ user.is_active
                           THEN last'.status = 200 /\ session'["A"].user_id = user.id
                           ELSE /\ session' = session
                                /\ last'.status = IF verified THEN 403 ELSE 401
                     /\ admin_login("A", tok, e, p, FALSE) =>
                           IF verified /\ user.is_active /\ user.is_superuser
                           THEN last'.status = 302 /\ session'["A"].user_id = user.id
                           ELSE /\ session' = session
                                /\ last'.status = IF verified THEN 403 ELSE 401
      ]_vars

\* The administrator, active and a superuser, has just logged in through
\* POST /admin/login.
C23_Witness ==
    /\ last.route = "admin_login"
    /\ last.status = 302
    /\ session["A"].user_id = 1
    /\ get_user_by_id(1).is_active
    /\ get_user_by_id(1).is_superuser

(***************************************************************************)
(* The public detail and list pages: app/landing/routes.py project_detail  *)
(* and app/news/routes.py.  Both routers run set_current_user_optional     *)
(* first.  project_detail renders with app/core/web/templates.py, which    *)
(* creates the session's CSRF token; the news routes render with           *)
(* app/core/templates.py, which does not touch the session (t is unused).  *)
(***************************************************************************)
PlainGet == [header |-> None, ctype |-> "text/plain", form |-> None]

\* NewsRepository.get_all_news: the rows, filtered when published_only.
get_all_news(published_only) ==
    IF published_only THEN {n \in news : n.is_published} ELSE news

\* GET /projects/{slug}
project_detail(s, slug, t) ==
    LET g == Gate(s, "GET", "/projects/{slug}", PlainGet, "optional", FALSE)
        project == get_project_by_slug(slug)
    IN  /\ UNCHANGED <<userVars, catalogVars, contentVars>>
        /\ IF project = NoProject
           THEN /\ session' = AfterGate(s, g)
                /\ Respond("project_detail", s, 404, "project_not_found", "handler")
           ELSE IF ~project.is_published /\ g.user = 0
           THEN /\ session' = AfterGate(s, g)
                /\ Respond("project_detail", s, 404, "project_not_found", "handler")
           ELSE /\ session' = generate_csrf_token(AfterGate(s, g), s, t)
                /\ Respond("project_detail", s, 200, "project_detail.html", "handler")

\* GET /news/?published_only=...
get_news_list(s, published_only, t) ==
    LET g == Gate(s, "GET", "/news/", PlainGet, "optional", FALSE)
    IN  /\ UNCHANGED <<userVars, catalogVars, contentVars>>
        /\ session' = AfterGate(s, g)
        /\ Respond("get_news_list", s, 200,
                   IF get_all_news(published_only) \subseteq get_all_news(TRUE)
                   THEN "published_rows" ELSE "all_rows", "handler")

\* GET /news/id/{news_id}
get_news_by_id_route(s, news_id, t) ==
    LET g == Gate(s, "GET", "/news/id/{news_id}", PlainGet, "optional", FALSE)
    IN  /\ UNCHANGED <<userVars, catalogVars, contentVars>>
        /\ IF get_news_by_id(news_id) = NoNews
           THEN /\ session' = AfterGate(s, g)
                /\ Respond("get_news_by_id_route", s, 404, "news_not_found", "handler")
           ELSE /\ session' = AfterGate(s, g)
                /\ Respond("get_news_by_id_route", s, 200, "news/full_page.html", "handler")

\* GET /news/{slug}
get_news_by_slug_route(s, slug, t) ==
    LET g == Gate(s, "GET", "/news/{slug}", PlainGet, "optional", FALSE)
    IN  /\ UNCHANGED <<userVars, catalogVars, contentVars>>
        /\ IF get_news_by_slug(slug) = NoNews
           THEN /\ session' = AfterGate(s, g)
                /\ Respond("get_news_by_slug_route", s, 404, "news_not_found", "handler")
           ELSE /\ session' = AfterGate(s, g)
                /\ Respond("get_news_by_slug_route", s, 200, "news/full_page.html", "handler")

(***************************************************************************)
(* SpecPublic: the administrator (session A) fills the catalogue and the   *)
(* news; session B, anonymous or holding the earlier account in any state, *)
(* and session A read the public pages.                                    *)
(***************************************************************************)
PublicSlugs == {"almaty", "astana"}

InitPublic ==
    /\ InitUsers
    /\ \E uid \in {0, 2} :
          session = [s \in Sessions |->
                       IF s = "A" THEN [user_id |-> 1, csrf_token |-> "t1"]
                       ELSE [user_id |-> uid, csrf_token |-> None]]
    /\ InitCatalogEmpty
    /\ InitContentEmpty
    /\ last = InitLast

NextPublic ==
    \/ admin_city_add("A", FormTok("t1"), "Almaty", "", TRUE, 0)
    \/ \E pub \in BOOLEAN :
          admin_project_add("A", UploadTok("t1"), "Almaty", "", None, 1, "current", pub,
                            <<>>, "none")
    \/ admin_project_toggle_publish("A", FormTok("t1"), 1)
    \/ \E pub \in BOOLEAN :
          admin_news_add("A", UploadTok("t1"), "Almaty", "", pub, NoUpload, "none")
    \/ \E s \in Sessions, slug \in PublicSlugs : project_detail(s, slug, "t1")
    \/ \E s \in Sessions, po \in BOOLEAN : get_news_list(s, po, "t1")
    \/ \E s \in Sessions, id \in 1..MaxNews : get_news_by_id_route(s, id, "t1")
    \/ \E s \in Sessions, slug \in PublicSlugs : get_news_by_slug_route(s, slug, "t1")

SpecPublic == InitPublic /\ [][NextPublic]_vars

\* C24: GET /projects/{slug} shows an unpublished project (answers 200) only
\* to a request whose session holds a superuser; every other requester of an
\* unpublished project gets an answer other than the page.
C24_UnpublishedOnlyForSuperuser ==
    [][\A s \in Sessions, slug \in PublicSlugs :
          (/\ last'.route = "project_detail"
           /\ last'.sess = s
           /\ project_detail(s, slug, "t1")
           /\ get_project_by_slug(slug) # NoProject
           /\ ~get_project_by_slug(slug).is_published
           /\ last'.status = 200)
          => get_user_by_id(session[s].user_id).is_superuser]_vars

\* C25: a request whose session holds no active user is never answered with
\* an unpublished news item: an item page is not served for an unpublished
\* item, and the list holds published rows only, whatever published_only says.
C25_UnpublishedNewsHidden ==
    [][\A s \in Sessions :
          (/\ last'.route \in {"get_news_list", "get_news_by_id_route",
                               "get_news_by_slug_route"}
           /\ last'.sess = s
           /\ set_current_user_optional(s).user = 0
           /\ last'.status = 200)
          => /\ \A id \in 1..MaxNews :
                   get_news_by_id_route(s, id, "t1") => get_news_by_id(id).is_published
             /\ \A slug \in PublicSlugs :
                   get_news_by_slug_route(s, slug, "t1")
                      => get_news_by_slug(slug).is_published
             /\ \A po \in BOOLEAN :
                   get_news_list(s, po, "t1")
                      => \A n \in get_all_news(po) : n.is_published]_vars

(***************************************************************************)
(* Stored image references and the files on disk                           *)
(***************************************************************************)
\* C26: whatever project add and edit requests were made, accepted or
\* refused, every URL in every stored project image list names a file that
\* exists in the project upload directory.
C26_ProjectImagesOnDisk ==
    \A p \in projects : \A i \in DOMAIN p.images :
        \E f \in files : f.path = p.images[i]

(***************************************************************************)
(* SpecNewsFiles: the administrator adds, edits and deletes two news       *)
(* items, with and without an image, with free and with taken slugs; the   *)
(* upload directory starts with default.jpg in it.                         *)
(***************************************************************************)
DefaultNewsFile ==
    [path |-> DefaultNewsImage, encoding |-> "raw", upload |-> Png(64), written |-> 64]

InitNewsFiles ==
    /\ users = {AdminRow}
    /\ next_user_id = 2
    /\ session = [s \in Sessions |->
                    IF s = "A" THEN [user_id |-> 1, csrf_token |-> "t1"]
                    ELSE EmptySession]
    /\ InitCatalogEmpty
    /\ news = {}
    /\ next_news_id = 1
    /\ files = {DefaultNewsFile}
    /\ next_file_id = 1
    /\ settings = {DefaultSettings}
    /\ pending = [w \in Workers |-> Idle]
    /\ last = InitLast

NextNewsFiles ==
    \/ \E title \in {"Almaty", "Astana"}, u \in {NoUpload, Png(64), NotAnImage} :
          admin_news_add("A", UploadTok("t1"), title, "", FALSE, u, "none")
    \/ \E id \in 1..MaxNews, slug \in {"almaty", "astana"},
          u \in {NoUpload, Png(64), NotAnImage} :
          admin_news_edit("A", UploadTok("t1"), id, "Almaty", slug, FALSE, u, "none")
    \/ \E id \in 1..MaxNews : admin_news_delete("A", FormTok("t1"), id)

SpecNewsFiles == InitNewsFiles /\ [][NextNewsFiles]_vars

\* C27: whatever news add, edit and delete requests were made, accepted or
\* refused, every stored news record whose image_path is not the default one
\* names a file on disk, and uploads/news/default.jpg is still on disk.
C27_NewsImagesOnDisk ==
    /\ \A n \in news :
          n.image_path # DefaultNewsImage => \E f \in files : f.path = n.image_path
    /\ \E f \in files : f.path = DefaultNewsImage

(***************************************************************************)
(* Requests on users that overlap.  require_superuser runs as a dependency *)
(* and awaits the database; the handler body runs after it and awaits the  *)
(* database again, so another request can run in between.  pending holds,  *)
(* per worker, the request that passed require_superuser and has not yet   *)
(* run its handler body, with the current_user the dependency returned.    *)
(***************************************************************************)
UserCall(op, s, current_user, user_id, full_name, email, is_superuser) ==
    [pc |-> "handler", op |-> op, sess |-> s, current_user |-> current_user,
     user_id |-> user_id, full_name |-> full_name, email |-> email,
     is_superuser |-> is_superuser]

\* POST /admin/users/{user_id}/edit up to the return of require_superuser
admin_user_edit_begin(s, w, tok, user_id, full_name, email, is_superuser) ==
    LET g == Gate(s, "POST", "/admin/users/{user_id}/edit", tok, "superuser", TRUE)
    IN  /\ pending[w].pc = "idle"
        /\ IF g.status # 200 THEN Reject("admin_user_edit", s, g)
           ELSE /\ pending' = [pending EXCEPT ![w] =
                      UserCall("admin_user_edit", s, g.user, user_id, full_name, email,
                               is_superuser)]
                /\ session' = AfterGate(s, g)
                /\ UNCHANGED <<userVars, catalogVars, newsVars, fileVars, settings, last>>

\* the handler body of admin_user_edit, with the current_user it was given
admin_user_edit_commit(w) ==
    LET c == pending[w]
        r == update_user_admin(c.user_id, c.email, c.full_name, c.is_superuser,
                               c.current_user)
    IN  /\ c.pc = "handler"
        /\ c.op = "admin_user_edit"
        /\ pending' = [pending EXCEPT ![w] = Idle]
        /\ users' = r.users
        /\ Respond("admin_user_edit", c.sess, IF r.status = 500 THEN 500 ELSE 303,
                   CASE r.status = 200 -> "success=updated"
                     [] r.status = 404 -> "error=not_found"
                     [] r.status = 400 -> "error=cannot_remove_own_superuser"
                     [] r.status = 409 -> "error=email_exists"
                     [] OTHER -> "error=unknown",
                   "handler")
        /\ UNCHANGED <<next_user_id, session, catalogVars, newsVars, fileVars, settings>>

\* POST /admin/users/{user_id}/delete up to the return of require_superuser
admin_user_delete_begin(s, w, tok, user_id) ==
    LET g == Gate(s, "POST", "/admin/users/{user_id}/delete", tok, "superuser", FALSE)
    IN  /\ pending[w].pc = "idle"
        /\ IF g.status # 200 THEN Reject("admin_user_delete", s, g)
           ELSE /\ pending' = [pending EXCEPT ![w] =
                      UserCall("admin_user_delete", s, g.user, user_id, None, None, FALSE)]
                /\ session' = AfterGate(s, g)
                /\ UNCHANGED <<userVars, catalogVars, newsVars, fileVars, settings, last>>

\* the handler body of admin_user_delete, with the current_user it was given
admin_user_delete_commit(w) ==
    LET c == pending[w]
        user == get_user_by_id(c.user_id)
    IN  /\ c.pc = "handler"
        /\ c.op = "admin_user_delete"
        /\ pending' = [pending EXCEPT ![w] = Idle]
        /\ UNCHANGED <<next_user_id, session, catalogVars, newsVars, fileVars, settings>>
        /\ IF user = NoUser
           THEN /\ Respond("admin_user_delete", c.sess, 303, "error=not_found", "handler")
                /\ UNCHANGED users
           ELSE IF user.id = c.current_user
           THEN /\ Respond("admin_user_delete", c.sess, 303, "error=cannot_delete_yourself",
                           "handler")
                /\ UNCHANGED users
           ELSE /\ users' = users \ {user}
                /\ Respond("admin_user_delete", c.sess, 303, "success=deleted", "handler")

(***************************************************************************)
(* SpecUserRace: two logged-in accounts, the bootstrap administrator and   *)
(* the earlier account in any state, send user-edit and user-delete        *)
(* requests that may overlap.                                              *)
(***************************************************************************)
NextUserRace ==
    \E s \in Sessions, w \in Workers :
        \/ \E id \in 1..2, su \in BOOLEAN :
              admin_user_edit_begin(s, w, FormTok("t1"), id, "n1", get_user_by_id(id).email, su)
        \/ admin_user_edit_commit(w)
        \/ \E id \in 1..2 : admin_user_delete_begin(s, w, FormTok("t1"), id)
        \/ admin_user_delete_commit(w)

SpecUserRace == InitAdmin /\ [][NextUserRace]_vars

\* C28: the table starts with an active superuser; whatever user-edit and
\* user-delete requests are made, overlapping or not, at least one
\* superuser account exists.
C28_SuperuserRemains == \E u \in users : u.is_superuser

(***************************************************************************)
(* Creations that overlap.  create_user and CityService.create_city look   *)
(* the key up, and insert in a later await: pending holds, per worker, the *)
(* request whose lookups found nothing and whose insert has not yet run.   *)
(***************************************************************************)
CreateCall(op, s, row, is_superuser) ==
    [pc |-> "create", op |-> op, sess |-> s, row |-> row, is_superuser |-> is_superuser]

\* The tests of create_user that come before the insert.
create_user_check(email, username, password) ==
    IF get_user_by_email(email) # NoUser THEN 409
    ELSE IF get_user_by_username(username) # NoUser THEN 409
    ELSE IF Len(password) < MinPasswordLength THEN 400
    ELSE 200

\* POST /admin/users/add up to the insert
admin_user_add_begin(s, w, tok, email, username, full_name, password, is_superuser) ==
    LET g == Gate(s, "POST", "/admin/users/add", tok, "superuser", TRUE)
        status == create_user_check(email, username, password)
    IN  /\ pending[w].pc = "idle"
        /\ next_user_id <= MaxUsers
        /\ IF g.status # 200 THEN Reject("admin_user_add", s, g)
           ELSE IF status # 200
           THEN /\ Respond("admin_user_add", s, 303,
                           IF status = 409 THEN "error=already_exists"
                           ELSE "error=invalid_password", "handler")
                /\ UNCHANGED <<session, userVars, catalogVars, contentVars>>
           ELSE /\ pending' = [pending EXCEPT ![w] =
                      CreateCall("admin_user_add", s,
                                 [id |-> 0, email |-> email, username |-> username,
                                  hashed_password |-> get_password_hash(password),
                                  full_name |-> full_name, is_active |-> DefaultIsActive,
                                  is_superuser |-> DefaultIsSuperuser],
                                 is_superuser)]
                /\ UNCHANGED <<session, userVars, catalogVars, newsVars, fileVars, settings,
                               last>>

\* UserRepository.create_user and the rest of admin_user_add.  An
\* IntegrityError is no HTTPException: the handler does not catch it.
admin_user_add_commit(w) ==
    LET c == pending[w]
        r == repo_create_user([c.row EXCEPT !.id = next_user_id])
        promoted == {IF u.id = r.id THEN [u EXCEPT !.is_superuser = TRUE] ELSE u :
                     u \in r.users}
    IN  /\ c.pc = "create"
        /\ c.op = "admin_user_add"
        /\ pending' = [pending EXCEPT ![w] = Idle]
        /\ users' = IF r.status = 200 /\ c.is_superuser THEN promoted ELSE r.users
        /\ next_user_id' = IF r.status = 200 THEN next_user_id + 1 ELSE next_user_id
        /\ Respond("admin_user_add", c.sess, IF r.status = 200 THEN 303 ELSE 500,
                   IF r.status = 200 THEN "success=created" ELSE "IntegrityError", "handler")
        /\ UNCHANGED <<session, catalogVars, newsVars, fileVars, settings>>

\* POST /admin/cities/add up to the insert
admin_city_add_begin(s, w, tok, name, slug, is_active, sort_order) ==
    LET g == Gate(s, "POST", "/admin/cities/add", tok, "superuser", TRUE)
        city_slug == slug_or_generated(slug, name)
    IN  /\ pending[w].pc = "idle"
        /\ next_city_id <= MaxCities
        /\ IF g.status # 200 THEN Reject("admin_city_add", s, g)
           ELSE IF get_city_by_slug(city_slug) # NoCity
           THEN /\ CatalogRespond("admin_city_add", s, catalog_error(409, "city_slug_exists"),
                                  "success=created")
                /\ UNCHANGED <<session, userVars, catalogVars, contentVars>>
           ELSE /\ pending' = [pending EXCEPT ![w] =
                      CreateCall("admin_city_add", s,
                                 [id |-> 0, name |-> name, slug |-> city_slug,
                                  is_active |-> is_active, sort_order |-> sort_order],
                                 FALSE)]
                /\ UNCHANGED <<session, userVars, catalogVars, newsVars, fileVars, settings,
                               last>>

\* CityRepository.create_city and the rest of admin_city_add, which catches
\* every exception and redirects with its text.
admin_city_add_commit(w) ==
    LET c == pending[w]
        r == catalog_commit(cities \cup {[c.row EXCEPT !.id = next_city_id]}, projects)
    IN  /\ c.pc = "create"
        /\ c.op = "admin_city_add"
        /\ pending' = [pending EXCEPT ![w] = Idle]
        /\ cities' = r.cities
        /\ next_city_id' = IF r.status = 200 THEN next_city_id + 1 ELSE next_city_id
        /\ CatalogRespond("admin_city_add", c.sess, r, "success=created")
        /\ UNCHANGED <<session, userVars, projects, next_project_id, newsVars, fileVars,
                       settings>>

(***************************************************************************)
(* SpecCreateRace: the administrator sends user-add and city-add requests  *)
(* that may overlap, with keys that may coincide.                          *)
(***************************************************************************)
NextCreateRace ==
    \E w \in Workers :
        \/ \E e \in {"b@x.com", "c@x.com"}, u \in {"b", "c"}, su \in BOOLEAN :
              admin_user_add_begin("A", w, FormTok("t1"), e, u, "n1", "password1", su)
        \/ admin_user_add_commit(w)
        \/ \E name \in {"Almaty", "Astana"} :
              admin_city_add_begin("A", w, FormTok("t1"), name, "", TRUE, 0)
        \/ admin_city_add_commit(w)

SpecCreateRace == InitCatalog /\ [][NextCreateRace]_vars

TokenForms == {FormTok(t) : t \in Tokens \cup {None}}

InitToken ==
    /\ InitUsers
    /\ \E uid \in 0..MaxUsers, t \in Tokens \cup {None} :
          session = [s \in Sessions |->
                       IF s = "A" THEN [user_id |-> uid, csrf_token |-> t]
                       ELSE EmptySession]
    /\ InitCatalogEmpty
    /\ InitContentEmpty
    /\ last = InitLast

NextToken ==
    \/ \E tok \in TokenForms, e \in {"admin@x.com", "a@x.com"} :
          login("A", tok, e, "password1", FALSE)
    \/ \E tok \in TokenForms, e \in {"admin@x.com", "a@x.com"} :
          admin_login("A", tok, e, "password1", FALSE)
    \/ \E tok \in TokenForms : logout("A", tok)
    \/ \E tok \in TokenForms : admin_logout("A", tok)
    \/ get_me("A")
    \/ current_user_optional("A")
    \/ \E t \in Tokens : admin_login_page("A", t)
    \/ \E t \in Tokens : index("A", t)
    \/ \E t \in Tokens, page \in AdminPages : admin_page("A", page, t)
    \/ \E t \in Tokens : get_news_list("A", TRUE, t)

SpecToken == InitToken /\ [][NextToken]_vars

\* The step is a request of session s that rendered a template of
\* app/core/web/templates.py.
Rendered(s) ==
    /\ last'.sess = s
    /\ last'.status = 200
    /\ last'.stage = "handler"
    /\ \E t \in Tokens :
          \/ index(s, t)
          \/ admin_login_page(s, t)
          \/ \E page \in AdminPages \ {"/admin/"} : admin_page(s, page, t)

\* C30: a session gets a CSRF token only in a request that renders a
\* template while the session has none; a token that is there is kept by
\* every later render and by login, and changes only when the session is
\* cleared (logout, user not found, inactive user), which removes it: after
\* a clear the session has no token unless the same request went on to
\* render a template.  While the session has no token, every login and
\* logout POST of that session is answered 403 and leaves the session as
\* it is.
C30_TokenLifecycle ==
    [][\A s \in Sessions :
          LET token == session[s].csrf_token
          IN  /\ (token = None /\ session'[s].csrf_token # None) => Rendered(s)
              /\ (token # None /\ session'[s].csrf_token # token)
                    => /\ session'[s].user_id = 0
                       /\ session'[s].csrf_token = None \/ Rendered(s)
              /\ (session[s].user_id # 0 /\ session'[s].user_id = 0)
                    => session'[s].csrf_token = None \/ Rendered(s)
              /\ token = None =>
                    \A tok \in TokenForms, e \in {"admin@x.com", "a@x.com"} :
                       (\/ login(s, tok, e, "password1", FALSE)
                        \/ admin_login(s, tok, e, "password1", FALSE)
                        \/ logout(s, tok)
                        \/ admin_logout(s, tok))
                          => /\ last'.status = 403
                             /\ last'.stage = "csrf"
                             /\ session' = session]_vars

\* An accepted logout, which the CSRF middleware let pass because the
\* session held a token, has cleared the session: the token is gone.
C30_Witness ==
    /\ last.sess = "A"
    /\ last.route = "logout"
    /\ last.status = 200
    /\ session["A"] = EmptySession

====
